---- MODULE Spec2Model ----
(***************************************************************************)
(* Functiomed voice agent: the Slot Store (database/db.py), the booking    *)
(* dialogue (voice_agent/state.py, voice_agent/agent.py) and the hybrid    *)
(* retriever (embedding/embedding.py).                                     *)
(*                                                                         *)
(* Dates are day ordinals (the code formats date.today() + i days as       *)
(* YYYY-MM-DD; equal ordinals give equal strings and conversely).          *)
(* A table is the sequence of its rows in rowid order; a row's id is its   *)
(* position.  A database connection that has executed a write statement    *)
(* holds SQLite's write lock until it commits or rolls back; its writes    *)
(* live in a working copy (w_slots, w_appts) no other connection reads.    *)
(***************************************************************************)
EXTENDS Integers, Sequences, FiniteSets, TLC

VARIABLES
    today,            \* date.today() as a day ordinal
    available_slots,  \* committed rows of table available_slots
    appointments,     \* committed rows of table appointments
    wlock,            \* the connection holding the write lock, or NoConn
    w_slots,          \* the lock holder's uncommitted view of available_slots
    w_appts,          \* the lock holder's uncommitted view of appointments
    conn,             \* per caller: the db.py call in progress and its result
    seedRun,          \* the seed_slots run in progress / the finished ones
    faults,           \* number of statements that raised so far
    calls,            \* number of db.py / process_message calls started
    sessions,         \* _sessions: room name -> BookingSession (or None)
    pending,          \* per room: the turns suspended in "await _ask_rag"
    resp,             \* per room: what the latest finished turn handed back
    probe,            \* bookkeeping of transition_to / go_back call counts
    retr,             \* the retrieve call under study: arguments, result,
                      \* and the ranking before a score was raised
    idx,              \* the vector-store cache, the index on disk, the threads
    store             \* data/clean_text, the chunk and BM25 caches, bm25.k

dbvars == <<today, available_slots, appointments, wlock, w_slots, w_appts,
            conn, seedRun, faults, calls>>

agentvars == <<sessions, pending, resp, probe>>

ragvars == <<retr, idx, store>>

vars == <<today, available_slots, appointments, wlock, w_slots, w_appts,
          conn, seedRun, faults, calls, sessions, pending, resp, probe,
          retr, idx, store>>

----------------------------------------------------------------------------
(* Bounds of the model *)

MaxToday  == 1     \* date.today() ranges over 0..MaxToday
SeedDays  == 1     \* days seeded ahead of today (range(1, 15) in the code)
MaxFaults == 1     \* statements that raise in one behaviour
MaxCalls  == 3     \* book_appointment / cancel_appointment calls started
MaxSeedCalls == 1  \* book_appointment calls started between seed_slots runs
MaxHist   == 6     \* length of state_history
MaxPending == 1    \* turns of one room suspended at the same time
MaxTurns  == 7     \* process_message calls started
MaxSharedTurns == 8  \* calls started by the conversation and the other caller
MaxProbe  == 3     \* transition_to calls made on a fresh session
MaxSingle == 1     \* process_message calls started on a given session
MaxRoomTurns == 3  \* process_message calls started over two conversations
MaxTopN   == 2     \* top_n of a retrieve call ranges over 1..MaxTopN
MaxFaiss  == 2     \* chunks the semantic retriever returns
MaxBm25   == 1     \* chunks the lexical retriever returns
MaxIndexCalls == 1 \* build_or_load_vectorstore calls one thread makes
MaxIngests == 2    \* POST /ingest requests
MaxFaqTurns == 4   \* turns of a conversation with questions
MaxClientCalls == 2  \* retrieve calls one client makes

SeedServices == <<"massage">>
SeedTimes    == <<900, 1000>>      \* "09:00", "10:00" as HHMM numbers

Conns  == {"c1", "c2"}
NoConn == "none"
SeedConn == "seed"

\* rooms served by the LiveKit worker and conversation ids of POST /agent/message
LiveKitRooms == {"room-1"}
HttpRooms    == {"test-room"}
Rooms        == LiveKitRooms \cup HttpRooms

Names  == {"Ann"}
Phones == {"+41791234567"}

----------------------------------------------------------------------------
(* Rows and SQL statements *)

\* UPDATE available_slots SET is_booked = v WHERE date = d AND time = t AND service = s
UpdateIsBooked(tbl, d, t, s, v) ==
    [i \in DOMAIN tbl |->
        IF tbl[i].date = d /\ tbl[i].time = t /\ tbl[i].service = s
        THEN [tbl[i] EXCEPT !.is_booked = v]
        ELSE tbl[i]]

\* UNIQUE(date, time, service)
SlotExists(tbl, d, t, s) ==
    \E i \in DOMAIN tbl :
        tbl[i].date = d /\ tbl[i].time = t /\ tbl[i].service = s

\* a plain INSERT on a table without the UNIQUE constraint
InsertSlotNoIgnore(tbl, d, t, s) ==
    Append(tbl, [date |-> d, time |-> t, service |-> s, is_booked |-> 0])

\* INSERT OR IGNORE INTO available_slots (date, time, service) VALUES (d, t, s)
InsertOrIgnoreSlot(tbl, d, t, s) ==
    IF SlotExists(tbl, d, t, s)
    THEN tbl
    ELSE Append(tbl, [date |-> d, time |-> t, service |-> s, is_booked |-> 0])

\* INSERT INTO appointments (name, phone, service, date, time, room_id)
InsertAppointment(tbl, name, phone, s, d, t, room) ==
    Append(tbl, [name |-> name, phone |-> phone, service |-> s, date |-> d,
                 time |-> t, status |-> "confirmed", room_id |-> room])

\* UPDATE appointments SET status = 'cancelled' WHERE id = id
UpdateStatusCancelled(tbl, id) ==
    [i \in DOMAIN tbl |->
        IF i = id THEN [tbl[i] EXCEPT !.status = "cancelled"] ELSE tbl[i]]

\* The rows seed_slots tries to insert, in loop order: day, service, time
SeedKeys(day0) ==
    LET ns == Len(SeedServices)
        nt == Len(SeedTimes)
    IN  [n \in 1..(SeedDays * ns * nt) |->
            [date    |-> day0 + 1 + ((n - 1) \div (ns * nt)),
             service |-> SeedServices[1 + (((n - 1) \div nt) % ns)],
             time    |-> SeedTimes[1 + ((n - 1) % nt)]]]

\* The insert loop of seed_slots; the inserts whose index is in failed raise
\* and are skipped by "except Exception: pass"
RECURSIVE SeedLoop(_, _, _, _)
SeedLoop(tbl, keys, n, failed) ==
    IF n > Len(keys) THEN tbl
    ELSE SeedLoop(IF n \in failed THEN tbl
                  ELSE InsertOrIgnoreSlot(tbl, keys[n].date, keys[n].time,
                                          keys[n].service),
                  keys, n + 1, failed)

Ok(id)    == [success |-> TRUE,  appointment_id |-> id, error |-> ""]
Fail(msg) == [success |-> FALSE, appointment_id |-> 0,  error |-> msg]
NoResult  == [success |-> FALSE, appointment_id |-> 0,  error |-> "pending"]

IdleConn ==
    [pc |-> "idle", op |-> "none", date |-> 0, time |-> 0, service |-> "",
     name |-> "", phone |-> "", room_id |-> "", id |-> 0,
     result |-> NoResult, faulted |-> FALSE, open_at_call |-> FALSE,
     raised_at |-> "none"]

Running(c) == conn[c].pc \notin {"idle", "done"}

----------------------------------------------------------------------------
(* Transactions *)

\* the first write statement of a transaction takes the write lock
AcquireLock(c) ==
    /\ wlock = NoConn
    /\ wlock' = c

\* conn.commit(): the working copy becomes the committed state
Commit(c) ==
    /\ wlock = c
    /\ available_slots' = w_slots
    /\ appointments' = w_appts
    /\ wlock' = NoConn
    /\ w_slots' = <<>>
    /\ w_appts' = <<>>

\* a connection in autocommit mode: every executed statement is already
\* persisted when rollback() is called
RollbackAutocommit(c) ==
    /\ wlock' = IF wlock = c THEN NoConn ELSE wlock
    /\ w_slots' = IF wlock = c THEN <<>> ELSE w_slots
    /\ w_appts' = IF wlock = c THEN <<>> ELSE w_appts
    /\ available_slots' = IF wlock = c THEN w_slots ELSE available_slots
    /\ appointments' = IF wlock = c THEN w_appts ELSE appointments

\* conn.rollback(): the working copy is dropped (a no-op without a transaction)
Rollback(c) ==
    /\ wlock' = IF wlock = c THEN NoConn ELSE wlock
    /\ w_slots' = IF wlock = c THEN <<>> ELSE w_slots
    /\ w_appts' = IF wlock = c THEN <<>> ELSE w_appts
    /\ UNCHANGED <<available_slots, appointments>>

\* "except Exception as e: conn.rollback(); return {success: False, error}"
Raise(c) ==
    /\ faults < MaxFaults
    /\ faults' = faults + 1
    /\ Rollback(c)
    /\ conn' = [conn EXCEPT ![c].pc = "done", ![c].faulted = TRUE,
                            ![c].raised_at = conn[c].pc,
                            ![c].result = Fail("exception")]
    /\ UNCHANGED <<today, seedRun, calls>>

----------------------------------------------------------------------------
(* book_appointment, one action per statement *)

\* get_connection(): the call starts.  Callers pass the (date, time, service)
\* of a row they read from available_slots, and rows are never deleted.
BookCall(c, i, name, phone) ==
    /\ ~Running(c)
    /\ i \in DOMAIN available_slots
    /\ calls' = calls + 1
    /\ conn' = [conn EXCEPT ![c] =
          [IdleConn EXCEPT !.pc = "book_update", !.op = "book",
               !.date = available_slots[i].date,
               !.time = available_slots[i].time,
               !.service = available_slots[i].service,
               !.name = name, !.phone = phone, !.room_id = c,
               !.open_at_call = (available_slots[i].is_booked = 0)]]
    /\ UNCHANGED <<today, available_slots, appointments, wlock, w_slots,
                   w_appts, seedRun, faults>>

\* Step 1: UPDATE available_slots SET is_booked = 1 WHERE date, time, service
BookUpdateSlot(c) ==
    /\ conn[c].pc = "book_update"
    /\ AcquireLock(c)
    /\ w_slots' = UpdateIsBooked(available_slots, conn[c].date, conn[c].time,
                                 conn[c].service, 1)
    /\ w_appts' = appointments
    /\ conn' = [conn EXCEPT ![c].pc = "book_insert"]
    /\ UNCHANGED <<today, available_slots, appointments, seedRun, faults, calls>>

\* Step 2: INSERT INTO appointments; cursor.lastrowid is the new row's id
BookInsertAppointment(c) ==
    /\ conn[c].pc = "book_insert"
    /\ wlock = c
    /\ w_appts' = InsertAppointment(w_appts, conn[c].name, conn[c].phone,
                     conn[c].service, conn[c].date, conn[c].time,
                     conn[c].room_id)
    /\ conn' = [conn EXCEPT ![c].pc = "book_commit", ![c].id = Len(w_appts')]
    /\ UNCHANGED <<today, available_slots, appointments, wlock, w_slots,
                   seedRun, faults, calls>>

\* conn.commit(); return {"success": True, "appointment_id": lastrowid}
BookCommit(c) ==
    /\ conn[c].pc = "book_commit"
    /\ Commit(c)
    /\ conn' = [conn EXCEPT ![c].pc = "done", ![c].result = Ok(conn[c].id)]
    /\ UNCHANGED <<today, seedRun, faults, calls>>

\* any of the three statements raises (I/O error, or "database is locked"
\* when the lock is not obtained within the busy timeout)
BookRaise(c) ==
    /\ conn[c].pc \in {"book_update", "book_insert", "book_commit"}
    /\ Raise(c)

----------------------------------------------------------------------------
(* cancel_appointment, one action per statement *)

CancelCall(c, id) ==
    /\ ~Running(c)
    /\ id \in 1..(Len(appointments) + 1)
    /\ calls' = calls + 1
    /\ conn' = [conn EXCEPT ![c] =
          [IdleConn EXCEPT !.pc = "cancel_select", !.op = "cancel",
                           !.id = id]]
    /\ UNCHANGED <<today, available_slots, appointments, wlock, w_slots,
                   w_appts, seedRun, faults>>

\* the lookup without the "if not row" test: the updates run for any id
CancelSelectNoCheck(c) ==
    /\ conn[c].pc = "cancel_select"
    /\ conn' = [conn EXCEPT ![c].pc = "cancel_free"]
    /\ UNCHANGED <<today, available_slots, appointments, wlock, w_slots,
                   w_appts, seedRun, faults, calls>>

\* SELECT * FROM appointments WHERE id = ?; "if not row: return not found"
CancelSelect(c) ==
    /\ conn[c].pc = "cancel_select"
    /\ IF conn[c].id \in DOMAIN appointments
       THEN conn' = [conn EXCEPT ![c].pc = "cancel_free",
                        ![c].date = appointments[conn[c].id].date,
                        ![c].time = appointments[conn[c].id].time,
                        ![c].service = appointments[conn[c].id].service]
       ELSE conn' = [conn EXCEPT ![c].pc = "done",
                        ![c].result = Fail("Appointment not found")]
    /\ UNCHANGED <<today, available_slots, appointments, wlock, w_slots,
                   w_appts, seedRun, faults, calls>>

\* UPDATE available_slots SET is_booked = 0 WHERE date, time, service of appt
CancelFreeSlot(c) ==
    /\ conn[c].pc = "cancel_free"
    /\ AcquireLock(c)
    /\ w_slots' = UpdateIsBooked(available_slots, conn[c].date, conn[c].time,
                                 conn[c].service, 0)
    /\ w_appts' = appointments
    /\ conn' = [conn EXCEPT ![c].pc = "cancel_status"]
    /\ UNCHANGED <<today, available_slots, appointments, seedRun, faults, calls>>

\* the status update committed on its own, ahead of conn.commit()
CancelUpdateStatusEarly(c) ==
    /\ conn[c].pc = "cancel_status"
    /\ wlock = c
    /\ w_appts' = UpdateStatusCancelled(w_appts, conn[c].id)
    /\ appointments' = UpdateStatusCancelled(appointments, conn[c].id)
    /\ conn' = [conn EXCEPT ![c].pc = "cancel_commit"]
    /\ UNCHANGED <<today, available_slots, wlock, w_slots, seedRun, faults,
                   calls>>

\* UPDATE appointments SET status = 'cancelled' WHERE id = ?
CancelUpdateStatus(c) ==
    /\ conn[c].pc = "cancel_status"
    /\ wlock = c
    /\ w_appts' = UpdateStatusCancelled(w_appts, conn[c].id)
    /\ conn' = [conn EXCEPT ![c].pc = "cancel_commit"]
    /\ UNCHANGED <<today, available_slots, appointments, wlock, w_slots,
                   seedRun, faults, calls>>

\* conn.commit(); return {"success": True, "appointment_id": appointment_id}
CancelCommit(c) ==
    /\ conn[c].pc = "cancel_commit"
    /\ Commit(c)
    /\ conn' = [conn EXCEPT ![c].pc = "done", ![c].result = Ok(conn[c].id)]
    /\ UNCHANGED <<today, seedRun, faults, calls>>

CancelRaise(c) ==
    /\ conn[c].pc \in {"cancel_select", "cancel_free", "cancel_status",
                       "cancel_commit"}
    /\ Raise(c)

----------------------------------------------------------------------------
(* seed_slots *)

\* the insert loop: the first INSERT takes the write lock, the inserts in
\* failed raise and are swallowed
SeedInsert(failed) ==
    /\ seedRun.pc = "idle"
    /\ failed \subseteq DOMAIN SeedKeys(today)
    /\ Cardinality(failed) <= MaxFaults - faults
    /\ AcquireLock(SeedConn)
    /\ w_slots' = SeedLoop(available_slots, SeedKeys(today), 1, failed)
    /\ w_appts' = appointments
    /\ seedRun' = [seedRun EXCEPT !.pc = "commit", !.today = today,
                                  !.failed = failed]
    /\ faults' = faults + Cardinality(failed)
    /\ UNCHANGED <<today, available_slots, appointments, conn, calls>>

\* conn.commit(); conn.close()
SeedCommit ==
    /\ seedRun.pc = "commit"
    /\ Commit(SeedConn)
    /\ seedRun' = [seedRun EXCEPT !.pc = "idle",
                      !.done = IF seedRun.failed = {}
                               THEN seedRun.done \cup {seedRun.today}
                               ELSE seedRun.done,
                      !.repeated = seedRun.repeated
                                   \/ seedRun.today \in seedRun.done]
    /\ UNCHANGED <<today, conn, faults, calls>>

\* midnight passes
NextDay ==
    /\ today < MaxToday
    /\ today' = today + 1
    /\ UNCHANGED <<available_slots, appointments, wlock, w_slots, w_appts,
                   conn, seedRun, faults, calls>>

\* the statements of caller c's book_appointment calls
BookSteps(c) ==
    \/ \E i \in 1..Len(available_slots), n \in Names, p \in Phones :
          BookCall(c, i, n, p)
    \/ BookUpdateSlot(c)
    \/ BookInsertAppointment(c)
    \/ BookCommit(c)
    \/ BookRaise(c)

\* the statements of caller c's cancel_appointment calls
CancelSteps(c) ==
    \/ \E id \in 1..(Len(appointments) + 1) : CancelCall(c, id)
    \/ CancelSelect(c)
    \/ CancelFreeSlot(c)
    \/ CancelUpdateStatus(c)
    \/ CancelCommit(c)
    \/ CancelRaise(c)


----------------------------------------------------------------------------
(* voice_agent/state.py: ConversationState and BookingSession *)

IDLE             == "idle"
GREETING         == "greeting"
INTENT_DETECTION == "intent_detection"
FAQ              == "faq"
COLLECT_SERVICE  == "collect_service"
COLLECT_DATE     == "collect_date"
SHOW_SLOTS       == "show_slots"
COLLECT_SLOT     == "collect_slot"
COLLECT_NAME     == "collect_name"
COLLECT_PHONE    == "collect_phone"
CONFIRM_BOOKING  == "confirm_booking"
BOOKING_DONE     == "booking_done"

ConversationState ==
    {IDLE, GREETING, INTENT_DETECTION, FAQ, COLLECT_SERVICE, COLLECT_DATE,
     SHOW_SLOTS, COLLECT_SLOT, COLLECT_NAME, COLLECT_PHONE, CONFIRM_BOOKING,
     BOOKING_DONE}

\* Optional[...] values: None is the empty tuple, a value v is <<v>>
None    == <<>>
Some(v) == <<v>>
Val(o)  == o[1]

\* BookingSession(room_id=room_id) with the dataclass defaults
NewSession(room) ==
    [room_id |-> room, language |-> "en", state |-> IDLE,
     state_history |-> <<>>, service |-> None, date |-> None, time |-> None,
     name |-> None, phone |-> None, available_slots |-> <<>>,
     pre_faq_state |-> None]

\* a plain assignment in place of the push: the outgoing state is not saved
transition_to_no_push(s, new_state) ==
    [s EXCEPT !.state = new_state]

\* BookingSession.transition_to
transition_to(s, new_state) ==
    [s EXCEPT !.state_history = Append(s.state_history, s.state),
              !.state = new_state]

\* go_back that returns True whether or not it popped a state
go_back_unchecked(s) ==
    [session |-> IF s.state_history = <<>> THEN s
                 ELSE [s EXCEPT !.state = s.state_history[Len(s.state_history)],
                                !.state_history =
                                    SubSeq(s.state_history, 1,
                                           Len(s.state_history) - 1)],
     went    |-> TRUE]

\* BookingSession.go_back: the session afterwards and the returned bool
go_back(s) ==
    IF s.state_history # <<>>
    THEN [session |-> [s EXCEPT
                          !.state = s.state_history[Len(s.state_history)],
                          !.state_history =
                              SubSeq(s.state_history, 1,
                                     Len(s.state_history) - 1)],
          went |-> TRUE]
    ELSE [session |-> s, went |-> FALSE]

\* reset_booking that keeps the collected booking data
reset_booking_keeps_fields(s) ==
    [s EXCEPT !.state_history = <<>>, !.pre_faq_state = None, !.state = IDLE]

\* reset_booking that keeps the history stack
reset_booking_keeps_history(s) ==
    [s EXCEPT !.service = None, !.date = None, !.time = None, !.name = None,
              !.phone = None, !.available_slots = <<>>,
              !.pre_faq_state = None, !.state = IDLE]

\* BookingSession.reset_booking
reset_booking(s) ==
    [s EXCEPT !.service = None, !.date = None, !.time = None, !.name = None,
              !.phone = None, !.available_slots = <<>>,
              !.state_history = <<>>, !.pre_faq_state = None,
              !.state = IDLE]

----------------------------------------------------------------------------
(* voice_agent/agent.py: parsers.  A text is the sequence of its words; the *)
(* code looks for keywords as substrings of the lower-cased text, so each   *)
(* word of the vocabulary lists the keywords it contains.                   *)

Subs(w) ==
    CASE w = "book"        -> {"book", "ok"}
      [] w = "ergotherapy" -> {"ergo", "ergotherapy"}
      [] w = "nein,"       -> {"nein"}
      [] w \in {"9", "10:00", "ann", "+41791234567", "hours"} -> {}
      [] OTHER             -> {w}

\* "kw in text_lower" for some kw of kws
Has(text, kws) ==
    \E i \in DOMAIN text : Subs(text[i]) \cap kws # {}

\* SERVICE_ALIASES in insertion order
SERVICE_ALIASES ==
    << <<"physio", "physiotherapy">>, <<"physiotherapy", "physiotherapy">>,
       <<"physical therapy", "physiotherapy">>, <<"massage", "massage">>,
       <<"osteo", "osteopathy">>, <<"osteopathy", "osteopathy">>,
       <<"mental", "mental coaching">>,
       <<"mental coaching", "mental coaching">>,
       <<"coaching", "mental coaching">>, <<"ergo", "ergotherapy">>,
       <<"ergotherapy", "ergotherapy">>, <<"occupational", "ergotherapy">>,
       <<"acupuncture", "acupuncture">>,
       <<"nutrition", "nutrition counseling">>,
       <<"dietitian", "nutrition counseling">>,
       <<"physiotherapie", "physiotherapy">>,
       <<"krankengymnastik", "physiotherapy">>,
       <<"osteopathie", "osteopathy">>,
       <<"mentaltraining", "mental coaching">>,
       <<"mental training", "mental coaching">>,
       <<"ergotherapie", "ergotherapy">>, <<"akupunktur", "acupuncture">>,
       <<"ernaehrung", "nutrition counseling">> >>

\* detect_service: the canonical name of the first alias found, or None
detect_service(text) ==
    LET hits == {k \in DOMAIN SERVICE_ALIASES :
                    Has(text, {SERVICE_ALIASES[k][1]})}
    IN  IF hits = {} THEN None
        ELSE Some(SERVICE_ALIASES[CHOOSE k \in hits :
                                     \A j \in hits : k <= j][2])

cancel_words ==
    {"cancel", "stop", "abort", "quit", "exit", "abbrechen", "stopp",
     "beenden"}
back_words == {"go back", "back", "previous", "zuruck", "nochmal"}
book_words ==
    {"book", "appointment", "reserve", "schedule", "buchen", "termin",
     "anmelden", "reservieren", "make an appointment", "book an appointment"}

\* detect_intent checks go-back before cancel
detect_intent_back_first(text) ==
    IF Has(text, back_words) THEN "go_back"
    ELSE IF Has(text, cancel_words) THEN "cancel"
    ELSE IF Has(text, book_words) THEN "book"
    ELSE IF detect_service(text) # None THEN "book"
    ELSE "faq"

\* detect_intent
detect_intent(text) ==
    IF Has(text, cancel_words) THEN "cancel"
    ELSE IF Has(text, back_words) THEN "go_back"
    ELSE IF Has(text, book_words) THEN "book"
    ELSE IF detect_service(text) # None THEN "book"
    ELSE "faq"

german_words ==
    {"ich", "bitte", "danke", "mochte", "termin", "buchen", "hallo", "ja",
     "nein", "wie", "konnen", "wann", "welche", "einen", "eine", "der",
     "die", "das", "fur", "und", "oder", "mit", "von", "auf", "ist", "guten",
     "morgen", "tag", "abend"}

\* detect_language: "de" when at least two listed words are words of the text
detect_language(text) ==
    LET words == {text[i] : i \in DOMAIN text}
    IN  IF Cardinality(german_words \cap words) >= 2 THEN "de" ELSE "en"

\* detect_date, relative dates (the other formats do not occur in the
\* vocabulary): the day ordinal or None
detect_date(text, day0) ==
    IF Has(text, {"today", "heute", "jetzt"}) THEN Some(day0)
    ELSE IF Has(text, {"tomorrow", "morgen"}) THEN Some(day0 + 1)
    ELSE IF Has(text, {"next week"}) THEN Some(day0 + 7)
    ELSE None

\* re.search(r"\b(\d{1,2})(?::(\d{2}))?\b", text): hour and minute of the
\* first word that is a number, as HHMM
NumberOf(w) ==
    CASE w = "9"     -> Some(900)
      [] w = "10:00" -> Some(1000)
      [] OTHER       -> None

word_to_hour ==
    << <<"nine", 9>>, <<"ten", 10>>, <<"eleven", 11>>, <<"twelve", 12>>,
       <<"one", 13>>, <<"two", 14>>, <<"three", 15>>, <<"four", 16>>,
       <<"five", 17>>, <<"neun", 9>>, <<"zehn", 10>>, <<"elf", 11>>,
       <<"dreizehn", 13>> >>

\* the first slot of slots whose time starts with the hour, or None
FirstWithHour(slots, hour) ==
    LET hits == {k \in DOMAIN slots : slots[k].time \div 100 = hour}
    IN  IF hits = {} THEN None
        ELSE Some(slots[CHOOSE k \in hits : \A j \in hits : k <= j].time)

\* detect_time returning the time the text names, listed or not
detect_time_unlisted(text, slots) ==
    LET nums == {i \in DOMAIN text : NumberOf(text[i]) # None}
    IN  IF nums = {} THEN None
        ELSE NumberOf(text[CHOOSE i \in nums : \A j \in nums : i <= j])

\* detect_time
detect_time(text, slots) ==
    LET nums  == {i \in DOMAIN text : NumberOf(text[i]) # None}
        cand  == Val(NumberOf(text[CHOOSE i \in nums : \A j \in nums : i <= j]))
        byNum == IF nums = {} THEN None
                 ELSE IF \E k \in DOMAIN slots : slots[k].time = cand
                      THEN Some(cand)
                      ELSE FirstWithHour(slots, cand \div 100)
        words == {k \in DOMAIN word_to_hour :
                     /\ Has(text, {word_to_hour[k][1]})
                     /\ FirstWithHour(slots, word_to_hour[k][2]) # None}
        byWord == IF words = {} THEN None
                  ELSE FirstWithHour(slots,
                          word_to_hour[CHOOSE k \in words :
                                          \A j \in words : k <= j][2])
    IN  IF slots = <<>> THEN None
        ELSE IF byNum # None THEN byNum
        ELSE IF byWord # None THEN byWord
        ELSE IF Len(slots) = 1
                /\ Has(text, {"yes", "ja", "ok", "that", "that one", "fine",
                              "good"})
             THEN Some(slots[1].time)
        ELSE None

\* detect_yes_no: "yes", "no" or None
detect_yes_no(text) ==
    IF Has(text, {"yes", "ja", "correct", "korrekt", "right", "stimmt",
                  "confirm", "yep", "yup", "sure", "ok", "okay"})
    THEN Some("yes")
    ELSE IF Has(text, {"no", "nein", "wrong", "falsch", "cancel", "abbrechen",
                       "incorrect", "not right", "change"})
    THEN Some("no")
    ELSE None

\* str.title() of a word
Title(w) ==
    CASE w = "ann"         -> "Ann"
      [] w = "book"        -> "Book"
      [] w = "termin"      -> "Termin"
      [] w = "buchen"      -> "Buchen"
      [] w = "massage"     -> "Massage"
      [] w = "ergotherapy" -> "Ergotherapy"
      [] w = "tomorrow"    -> "Tomorrow"
      [] w = "next week"   -> "Next Week"
      [] w = "yes"         -> "Yes"
      [] w = "no"          -> "No"
      [] w = "ja"          -> "Ja"
      [] w = "hours"       -> "Hours"
      [] w = "cancel"      -> "Cancel"
      [] w = "abbrechen"   -> "Abbrechen"
      [] w = "nein,"       -> "Nein,"
      [] w = "back"        -> "Back"
      [] OTHER             -> w

\* text.strip().title(): the words joined by single spaces
RECURSIVE TitleText(_)
TitleText(text) ==
    IF text = <<>> THEN ""
    ELSE IF Len(text) = 1 THEN Title(text[1])
    ELSE Title(text[1]) \o " " \o TitleText(Tail(text))

\* re.sub(r"[^\d+]", "", w)
DigitsOf(w) ==
    CASE w = "9"            -> "9"
      [] w = "10:00"        -> "1000"
      [] w = "+41791234567" -> "+41791234567"
      [] OTHER              -> ""

RECURSIVE PhoneOf(_)
PhoneOf(text) ==
    IF text = <<>> THEN "" ELSE DigitsOf(text[1]) \o PhoneOf(Tail(text))

----------------------------------------------------------------------------
(* voice_agent/agent.py: responses *)

\* R(key, lang): the text of template key in language lang
R(key, lang) == <<key, lang>>

\* what a turn hands back: a text (the sequence of its parts) or an exception
Returned_(parts) == [outcome |-> "returned", text |-> parts, request |-> <<>>]
RaisedExc        == [outcome |-> "raised",   text |-> <<>>,  request |-> <<>>]
NoResponse       == [outcome |-> "none",     text |-> <<>>,  request |-> <<>>]

\* the outcome of a turn that ran from the user text to its end without
\* suspending, together with that text
To(text, outcome) == [outcome EXCEPT !.request = text]

\* the member names of enum ConversationState
ConversationStateMembers ==
    {"IDLE", "GREETING", "INTENT_DETECTION", "FAQ", "COLLECT_SERVICE",
     "COLLECT_DATE", "SHOW_SLOTS", "COLLECT_SLOT", "COLLECT_NAME",
     "COLLECT_PHONE", "CONFIRM_BOOKING", "BOOKING_DONE"}

\* the keys of the prompts dict, in the order the dict display evaluates them
prompt_keys ==
    <<"COLLECT_SERVICE", "COLLECT_DATE", "COLLECT_SLOT", "COLLECT_NAME",
      "COLLECT_EMAIL", "COLLECT_PHONE", "CONFIRM_BOOKING">>

\* the prompts dict with every key a member of the enum
prompt_keys_all_members ==
    <<"COLLECT_SERVICE", "COLLECT_DATE", "COLLECT_SLOT", "COLLECT_NAME",
      "COLLECT_PHONE", "CONFIRM_BOOKING">>

\* prompts.get(state, R("welcome", lang))
PromptText(s) ==
    CASE s.state = COLLECT_SERVICE -> R("ask_service", s.language)
      [] s.state = COLLECT_DATE    -> R("service_confirmed", s.language)
      [] s.state = COLLECT_SLOT    ->
            IF s.available_slots # <<>>
            THEN R("available_slots", s.language)
            ELSE R("ask_date", s.language)
      [] s.state = COLLECT_NAME    -> R("ask_name", s.language)
      [] s.state = COLLECT_PHONE   -> R("ask_phone", s.language)
      [] s.state = CONFIRM_BOOKING -> R("confirm_booking", s.language)
      [] OTHER                     -> R("welcome", s.language)

\* _prompt_for_current_state: building the dict evaluates every key, and
\* ConversationState.<name> raises AttributeError for a name that is no member
prompt_for_current_state(s) ==
    IF \E k \in DOMAIN prompt_keys :
           prompt_keys[k] \notin ConversationStateMembers
    THEN [raised |-> TRUE,  text |-> <<>>]
    ELSE [raised |-> FALSE, text |-> PromptText(s)]

----------------------------------------------------------------------------
(* database reads and the booking transaction as one turn sees them *)

\* ORDER BY time
RECURSIVE SortByTime(_)
SortByTime(rows) ==
    IF rows = <<>> THEN <<>>
    ELSE LET m == CHOOSE k \in DOMAIN rows :
                    \A j \in DOMAIN rows :
                        \/ rows[k].time < rows[j].time
                        \/ (rows[k].time = rows[j].time /\ k <= j)
             rest == [k \in 1..(Len(rows) - 1) |->
                        IF k < m THEN rows[k] ELSE rows[k + 1]]
         IN  <<rows[m]>> \o SortByTime(rest)

RECURSIVE SelectRows(_, _, _)
SelectRows(tbl, d, svc) ==
    IF tbl = <<>> THEN <<>>
    ELSE LET r == tbl[1]
         IN  (IF r.date = d /\ r.is_booked = 0
                 /\ (svc = None \/ r.service = Val(svc))
              THEN <<r>> ELSE <<>>) \o SelectRows(Tail(tbl), d, svc)

\* the query without "AND is_booked = 0"
get_all_slots(tbl, d, svc) ==
    SortByTime(SelectSeq(tbl, LAMBDA r :
        r.date = d /\ (svc = None \/ r.service = Val(svc))))

\* get_available_slots(date_str, service)
get_available_slots(tbl, d, svc) == SortByTime(SelectRows(tbl, d, svc))

----------------------------------------------------------------------------
(* voice_agent/agent.py: process_message *)

\* results of the synchronous part of a turn
Done(s, parts)   == [kind |-> "done",    session |-> s, text |-> parts,
                     susp |-> None, reentries |-> 0]
Exc(s)           == [kind |-> "raise",   session |-> s, text |-> <<>>,
                     susp |-> None, reentries |-> 0]
Book(s)          == [kind |-> "book",    session |-> s, text |-> <<>>,
                     susp |-> None, reentries |-> 0]
\* the date assigned before the slots are looked at
NoSlotsKeepsDate(s, parsed_date, lang) ==
    Done([s EXCEPT !.date = parsed_date], <<R("no_slots", lang)>>)

\* "if not slots: return R('no_slots', ...)" of COLLECT_DATE
NoSlots(s, parsed_date, lang) == Done(s, <<R("no_slots", lang)>>)

\* a parse failure that gives up the booking
RepromptFromStart(s, key, lang) == Done(reset_booking(s), <<R(key, lang)>>)

\* "return R(key, lang)" of a branch whose input was not recognised
Reprompt(s, key, lang) == Done(s, <<R(key, lang)>>)

\* a turn suspended at "await _ask_rag(text)": the branch it is in, its
\* locals state and lang, the prompt it will append, and (for the properties)
\* the session as the turn found it
Suspend(s, k, st, lang, prompt, found) ==
    [kind |-> "suspend", session |-> s, text |-> <<>>, reentries |-> 0,
     susp |-> Some([kind |-> k, state |-> st, lang |-> lang,
                    prompt |-> prompt, found |-> found])]

\* the "FAQ interrupt" branch of COLLECT_SERVICE and COLLECT_DATE up to the await
Interrupt(s, lang, prompt) ==
    Suspend([s EXCEPT !.pre_faq_state = Some(s.state), !.state = FAQ],
            "interrupt", s.state, lang, prompt, s)

\* the result of "return await process_message(text, session)": one more
\* nested call
Reentered(t) == [t EXCEPT !.reentries = @ + 1]

\* process_message from its first line to its return, its raise, its call of
\* book_appointment or its first await
RECURSIVE Turn(_, _, _, _)
Turn(s0, text, day0, tbl) ==
    LET state    == s0.state
        early    == state \in {IDLE, GREETING}
        detected == detect_language(text)
        s        == IF early /\ detected # s0.language
                    THEN [s0 EXCEPT !.language = detected] ELSE s0
        lang     == s.language
        intent   == detect_intent(text)
    IN
    IF intent = "cancel" /\ ~early
    THEN Done(reset_booking(s), <<R("cancelled", lang)>>)
    ELSE IF intent = "go_back"
    THEN LET g == go_back(s)
             p == prompt_for_current_state(g.session)
         IN  IF g.went
             THEN IF p.raised THEN Exc(g.session)
                  ELSE Done(g.session, <<R("went_back", lang), p.text>>)
             ELSE Done(s, <<R("at_beginning", lang)>>)
    ELSE IF early
    THEN IF intent = "book"
         THEN Done(transition_to(s, COLLECT_SERVICE),
                   <<R("ask_service", lang)>>)
         ELSE Suspend(transition_to(s, FAQ), "idle_faq", state, lang, "", s0)
    ELSE IF state = FAQ
    THEN Suspend(s, "faq", state, lang, "", s)
    ELSE IF state = COLLECT_SERVICE
    THEN LET service == detect_service(text)
         IN  IF intent = "faq" /\ service = None
             THEN Interrupt(s, lang, "ask_service")
             ELSE IF service = None
             THEN Reprompt(s, "service_not_found", lang)
             ELSE Done(transition_to([s EXCEPT !.service = service],
                                     COLLECT_DATE),
                       <<R("service_confirmed", lang)>>)
    ELSE IF state = COLLECT_DATE
    THEN LET parsed_date == detect_date(text, day0)
             slots == get_available_slots(tbl, Val(parsed_date), s.service)
         IN  IF intent = "faq" /\ parsed_date = None
             THEN Interrupt(s, lang, "ask_date")
             ELSE IF parsed_date = None
             THEN Reprompt(s, "date_not_found", lang)
             ELSE IF slots = <<>>
             THEN NoSlots(s, parsed_date, lang)
             ELSE Done(transition_to([s EXCEPT !.date = parsed_date,
                                               !.available_slots = slots],
                                     COLLECT_SLOT),
                       <<R("available_slots", lang)>>)
    ELSE IF state = COLLECT_SLOT
    THEN LET chosen_time == detect_time(text, s.available_slots)
         IN  IF chosen_time = None
             THEN Reprompt(s, "time_not_found", lang)
             ELSE Done(transition_to([s EXCEPT !.time = chosen_time],
                                     COLLECT_NAME),
                       <<R("ask_name", lang)>>)
    ELSE IF state = COLLECT_NAME
    THEN LET name == TitleText(text)
         IN  IF Len(name) < 2
             THEN Reprompt(s, "ask_name", lang)
             ELSE Done(transition_to([s EXCEPT !.name = Some(name)],
                                     COLLECT_PHONE),
                       <<R("ask_phone", lang)>>)
    ELSE IF state = COLLECT_PHONE
    THEN LET phone == PhoneOf(text)
         IN  IF Len(phone) < 9
             THEN Reprompt(s, "phone_invalid", lang)
             ELSE Done(transition_to([s EXCEPT !.phone = Some(phone)],
                                     CONFIRM_BOOKING),
                       <<R("confirm_booking", lang)>>)
    ELSE IF state = CONFIRM_BOOKING
    THEN LET answer == detect_yes_no(text)
         IN  IF answer = Some("yes") THEN Book(s)
             ELSE IF answer = Some("no")
             THEN Done(reset_booking(s), <<R("cancelled", lang)>>)
             ELSE Reprompt(s, "confirm_yes_no", lang)
    ELSE IF state = BOOKING_DONE
    THEN Reentered(Turn(reset_booking(s), text, day0, tbl))
    ELSE Done(s, <<R("fallback", lang)>>)

\* get_session(room_id): the session of the room, created on first lookup
get_session_always_new(room) ==
    NewSession(room)

get_session(room) ==
    IF sessions[room] = None THEN NewSession(room) ELSE Val(sessions[room])

InitAgentVars ==
    /\ sessions = [r \in Rooms |-> None]
    /\ pending = [r \in Rooms |-> <<>>]
    /\ resp = [r \in Rooms |-> NoResponse]
    /\ probe = [origin |-> IDLE, fwd |-> 0, back |-> 0, all_true |-> TRUE]

DbFrame ==
    UNCHANGED <<today, wlock, w_slots, w_appts, conn, seedRun>>

\* entrypoint: the worker joins room r, creates its session, sets GREETING
\* and sends the welcome text
Entrypoint(r) ==
    /\ r \in LiveKitRooms
    /\ sessions[r] = None
    /\ sessions' = [sessions EXCEPT
                       ![r] = Some([get_session(r) EXCEPT !.state = GREETING])]
    /\ resp' = [resp EXCEPT ![r] = Returned_(<<R("welcome", "en")>>)]
    /\ UNCHANGED <<pending, probe, available_slots, appointments, faults,
                   calls>>
    /\ DbFrame
    /\ UNCHANGED ragvars

\* on_disconnected: clear_session(room_name)
Disconnect(r) ==
    /\ r \in LiveKitRooms
    /\ sessions[r] # None
    /\ sessions' = [sessions EXCEPT ![r] = None]
    /\ pending' = [pending EXCEPT ![r] = <<>>]
    /\ UNCHANGED <<resp, probe, available_slots, appointments, faults,
                   calls>>
    /\ DbFrame
    /\ UNCHANGED ragvars

\* book_appointment as one turn calls it: the two writes and the commit, or
\* an exception and the rollback.  The INSERT violates NOT NULL when a field
\* of the session is None; otherwise raises tells whether a statement raised.
BookAppointmentRetried(slots, appts, s, raises) ==
    IF \/ raises
       \/ None \in {s.name, s.phone, s.service, s.date, s.time}
    THEN [slots |-> slots, appts |-> appts, result |-> Fail("exception")]
    ELSE [slots  |-> UpdateIsBooked(slots, Val(s.date), Val(s.time),
                                    Val(s.service), 1),
          appts  |-> InsertAppointment(
                         InsertAppointment(appts, Val(s.name), Val(s.phone),
                             Val(s.service), Val(s.date), Val(s.time),
                             s.room_id),
                         Val(s.name), Val(s.phone), Val(s.service),
                         Val(s.date), Val(s.time), s.room_id),
          result |-> Ok(Len(appts) + 2)]

BookAppointment(slots, appts, s, raises) ==
    IF \/ raises
       \/ None \in {s.name, s.phone, s.service, s.date, s.time}
    THEN [slots |-> slots, appts |-> appts, result |-> Fail("exception")]
    ELSE [slots  |-> UpdateIsBooked(slots, Val(s.date), Val(s.time),
                                    Val(s.service), 1),
          appts  |-> InsertAppointment(appts, Val(s.name), Val(s.phone),
                         Val(s.service), Val(s.date), Val(s.time), s.room_id),
          result |-> Ok(Len(appts) + 1)]

\* a user message for room r is handled: process_message runs up to its
\* return, its raise or its first await.  raises tells whether a statement of
\* a book_appointment call made by the turn raises.
Message(r, text, raises) ==
    /\ r \in HttpRooms \/ sessions[r] # None
    /\ raises => get_session(r).state = CONFIRM_BOOKING
    /\ calls' = calls + 1
    /\ \E t \in {Turn(get_session(r), text, today, available_slots)} :
       LET s == t.session IN
       /\ Len(s.state_history) <= MaxHist
       /\ CASE t.kind = "done" ->
                 /\ ~raises
                 /\ sessions' = [sessions EXCEPT ![r] = Some(s)]
                 /\ resp' = [resp EXCEPT ![r] = To(text, Returned_(t.text))]
                 /\ UNCHANGED <<pending, available_slots, appointments, faults>>
            [] t.kind = "raise" ->
                 /\ ~raises
                 /\ sessions' = [sessions EXCEPT ![r] = Some(s)]
                 /\ resp' = [resp EXCEPT ![r] = To(text, RaisedExc)]
                 /\ UNCHANGED <<pending, available_slots, appointments, faults>>
            [] t.kind = "suspend" ->
                 /\ ~raises
                 /\ Len(pending[r]) < MaxPending
                 /\ sessions' = [sessions EXCEPT ![r] = Some(s)]
                 /\ pending' = [pending EXCEPT
                                   ![r] = Append(pending[r], Val(t.susp))]
                 /\ UNCHANGED <<resp, available_slots, appointments, faults>>
            [] t.kind = "book" ->
                 /\ wlock = NoConn
                 /\ \E b \in {BookAppointment(available_slots, appointments, s,
                                           raises)} :
                       /\ raises => faults < MaxFaults
                       /\ faults' = IF raises THEN faults + 1 ELSE faults
                       /\ available_slots' = b.slots
                       /\ appointments' = b.appts
                       /\ sessions' = [sessions EXCEPT ![r] =
                             IF b.result.success
                             THEN Some(reset_booking(
                                          transition_to(s, BOOKING_DONE)))
                             ELSE Some(reset_booking(s))]
                       /\ resp' = [resp EXCEPT ![r] = To(text,
                             IF b.result.success
                             THEN Returned_(<<R("booking_success", s.language)>>)
                             ELSE Returned_(<<R("booking_failed", s.language)>>))]
                       /\ UNCHANGED pending
    /\ UNCHANGED probe
    /\ DbFrame
    /\ UNCHANGED ragvars

\* "await _ask_rag(text)" of the k-th suspended turn of room r returns the
\* answer, or the apology text when the pipeline raised, and the turn runs on
\* to its end
RagDone(r, k, answer) ==
    /\ k \in DOMAIN pending[r]
    /\ sessions[r] # None
    /\ \E p \in {pending[r][k]}, s \in {Val(sessions[r])} :
       LET rest == [j \in 1..(Len(pending[r]) - 1) |->
                       IF j < k THEN pending[r][j] ELSE pending[r][j + 1]]
           restored == [s EXCEPT !.state = Val(s.pre_faq_state),
                                 !.pre_faq_state = None]
       IN
       /\ pending' = [pending EXCEPT ![r] = rest]
       /\ CASE p.kind = "idle_faq" ->
                 /\ Len(s.state_history) < MaxHist
                 /\ sessions' = [sessions EXCEPT
                                    ![r] = Some(transition_to(s, IDLE))]
                 /\ resp' = [resp EXCEPT ![r] = Returned_(<<answer>>)]
            [] p.kind = "faq" ->
                 IF s.pre_faq_state # None
                 THEN /\ sessions' = [sessions EXCEPT ![r] = Some(restored)]
                      /\ resp' = [resp EXCEPT ![r] =
                            IF prompt_for_current_state(restored).raised
                            THEN RaisedExc
                            ELSE Returned_(<<answer,
                                     R("faq_resume_booking", p.lang),
                                     prompt_for_current_state(restored).text>>)]
                 ELSE /\ sessions' = [sessions EXCEPT
                                         ![r] = Some([s EXCEPT !.state = IDLE])]
                      /\ resp' = [resp EXCEPT ![r] = Returned_(<<answer>>)]
            [] p.kind = "interrupt" ->
                 /\ sessions' = [sessions EXCEPT ![r] =
                       Some([s EXCEPT !.state = p.state,
                                      !.pre_faq_state = None])]
                 /\ resp' = [resp EXCEPT ![r] =
                       Returned_(<<answer, R(p.prompt, p.lang)>>)]
    /\ UNCHANGED <<probe, available_slots, appointments, faults, calls>>
    /\ DbFrame
    /\ UNCHANGED ragvars

\* what ask_llm returns, and the text _ask_rag returns when it raised
Answers == {<<"answer">>, <<"rag_error">>}

\* how one run of the RAG pipeline inside ask_llm ends: the completion
\* answers; retrieve raises inside (its handler returns no chunks); the
\* completion call raises; ask_llm itself raises (build_or_load_vectorstore)
RagOutcomes == {"answered", "retrieve_raises", "llm_raises", "index_raises"}

RagFailures == RagOutcomes \ {"answered"}

\* ask_llm: the text it returns, or that it raised
ask_llm(outcome) ==
    CASE outcome = "answered"        -> [raised |-> FALSE, text |-> <<"answer">>]
      [] outcome = "retrieve_raises" -> [raised |-> FALSE,
                                         text |-> <<"no_information">>]
      [] outcome = "llm_raises"      -> [raised |-> FALSE, text |-> <<"llm_error">>]
      [] outcome = "index_raises"    -> [raised |-> TRUE, text |-> <<>>]

\* _ask_rag without its except clause
ask_rag_uncaught(outcome) ==
    ask_llm(outcome)

\* _ask_rag: the answer of ask_llm, the apology text when ask_llm raised
ask_rag(outcome) ==
    IF ask_llm(outcome).raised
    THEN [raised |-> FALSE, text |-> <<"rag_error">>]
    ELSE ask_llm(outcome)

\* the texts a failed pipeline run hands to the turn
FallbackTexts == {<<"no_information">>, <<"llm_error">>, <<"rag_error">>}

\* "await _ask_rag(text)" of the k-th suspended turn of room r ends: the turn
\* runs on with the text, or the exception leaves process_message
AskRagDone(r, k, outcome) ==
    \E res \in {ask_rag(outcome)} :
       IF res.raised
       THEN /\ k \in DOMAIN pending[r]
            /\ sessions[r] # None
            /\ pending' = [pending EXCEPT ![r] =
                  [j \in 1..(Len(pending[r]) - 1) |->
                      IF j < k THEN pending[r][j] ELSE pending[r][j + 1]]]
            /\ resp' = [resp EXCEPT ![r] = RaisedExc]
            /\ UNCHANGED <<sessions, probe, available_slots, appointments,
                           faults, calls>>
            /\ DbFrame
            /\ UNCHANGED ragvars
       ELSE RagDone(r, k, res.text)

\* the user texts of the model
Utterances ==
    { <<"book">>, <<"massage">>, <<"tomorrow">>, <<"next week">>, <<"9">>,
      <<"ann">>, <<"+41791234567">>, <<"yes">>, <<"no">>, <<"cancel">>,
      <<"back">> }

\* the texts of a caller who books without detours
BookingScript ==
    { <<"book">>, <<"massage">>, <<"tomorrow">>, <<"9">>, <<"ann">>,
      <<"+41791234567">>, <<"yes">> }

\* "nein, abbrechen" and a German opening, "termin buchen"
GermanCancel == <<"nein,", "abbrechen">>
GermanOpening == <<"termin", "buchen">>

\* the texts of a caller who books in either language and then cancels in
\* German
GermanScript == BookingScript \cup {GermanOpening, GermanCancel}

----------------------------------------------------------------------------
(* embedding/embedding.py: the hybrid retriever.  A chunk is its place in   *)
(* the corpus; two chunks are the same page_content exactly when they are   *)
(* the same place.  Scores are counted in halves: the boosts 3.0, 1.5, 0.0  *)
(* are 6, 3, 0 and the threshold -2.5 is -5.                                *)

RELEVANCE_THRESHOLD == -5
CANDIDATE_MULTIPLIER == 4

\* the chunks of data/clean_text: source_type, and what
\* _heuristic_sort_when_reranker_disabled looks for in name and content
Corpus ==
    << [source_type |-> "web", functiotraining |-> FALSE, angebot |-> FALSE,
        hours |-> TRUE, flaeche |-> FALSE, time |-> TRUE],
       [source_type |-> "pdf", functiotraining |-> FALSE, angebot |-> FALSE,
        hours |-> TRUE, flaeche |-> FALSE, time |-> TRUE],
       [source_type |-> "web", functiotraining |-> TRUE, angebot |-> TRUE,
        hours |-> TRUE, flaeche |-> TRUE, time |-> TRUE] >>

Docs == DOMAIN Corpus

\* what reranker.predict may return for a chunk, in halves
Scores == {-9, -6, -5}

Queries == {"what are the opening hours", "patient form", "massage"}

info_keywords ==
    {"how", "what", "when", "where", "can i", "wie kann", "book",
     "appointment", "termin", "buchen", "contact", "phone", "email",
     "opening hours", "services", "treatment", "cost", "price", "insurance",
     "process", "procedure", "offnungszeiten", "kontakt", "telefon",
     "angebot"}

form_keywords ==
    {"registration", "anmeldung", "form", "formular", "documents needed",
     "what information", "fill out", "patient form", "which documents",
     "bring to appointment"}

hours_terms ==
    {"opening hours", "open hours", "offnungszeiten", "oeffnungszeiten",
     "when is", "wann", "available", "availability", "open", "geoffnet",
     "geoeffnet"}

\* the keywords of the three lists that are substrings of the query
QueryHits(query) ==
    CASE query = "what are the opening hours" ->
             {"what", "opening hours", "open"}
      [] query = "patient form" -> {"form", "patient form"}
      [] OTHER -> {}

\* classify_query_intent
classify_query_intent(query) ==
    LET info_count == Cardinality(QueryHits(query) \cap info_keywords)
        form_count == Cardinality(QueryHits(query) \cap form_keywords)
    IN  IF info_count > form_count THEN "information"
        ELSE IF form_count > info_count THEN "form"
        ELSE "general"

\* web_boost of retrieve
web_boost(intent) ==
    IF intent = "information" THEN 6
    ELSE IF intent = "form" THEN 0
    ELSE 3

\* seq[:n] for n >= 0
Take(seq, n) ==
    SubSeq(seq, 1, IF n < Len(seq) THEN n ELSE Len(seq))

\* _deduplicate: the first occurrence of every page_content, in order
RECURSIVE dedup_from(_, _)
dedup_from(docs, seen) ==
    IF docs = <<>> THEN <<>>
    ELSE IF Head(docs) \in seen THEN dedup_from(Tail(docs), seen)
    ELSE <<Head(docs)>> \o dedup_from(Tail(docs), seen \cup {Head(docs)})

\* the merge without the removal of repeated page_content
deduplicate_keep_all(docs) == docs

deduplicate(docs) == dedup_from(docs, {})

\* the ranking sorts ascending
RECURSIVE sorted_ascending(_, _)
sorted_ascending(docs, key) ==
    IF docs = <<>> THEN <<>>
    ELSE LET first == CHOOSE i \in DOMAIN docs :
                         \A j \in DOMAIN docs :
                            \/ key[docs[i]] < key[docs[j]]
                            \/ key[docs[i]] = key[docs[j]] /\ i <= j
             rest == [j \in 1..(Len(docs) - 1) |->
                         IF j < first THEN docs[j] ELSE docs[j + 1]]
         IN  <<docs[first]>> \o sorted_ascending(rest, key)

\* sorted(docs, key=..., reverse=True): descending by key; the sort is stable,
\* so chunks with equal keys keep the order they have in docs
RECURSIVE sorted_reverse(_, _)
sorted_reverse(docs, key) ==
    IF docs = <<>> THEN <<>>
    ELSE LET first == CHOOSE i \in DOMAIN docs :
                         \A j \in DOMAIN docs :
                            \/ key[docs[i]] > key[docs[j]]
                            \/ key[docs[i]] = key[docs[j]] /\ i <= j
             rest == [j \in 1..(Len(docs) - 1) |->
                         IF j < first THEN docs[j] ELSE docs[j + 1]]
         IN  <<docs[first]>> \o sorted_reverse(rest, key)

\* the score _heuristic_sort_when_reranker_disabled gives a chunk
heuristic_score(d) ==
    (IF Corpus[d].functiotraining THEN 12 ELSE 0)
    + (IF Corpus[d].angebot THEN 20 ELSE 0)
    + (IF Corpus[d].hours THEN 10 ELSE 0)
    + (IF Corpus[d].flaeche THEN 6 ELSE 0)
    + (IF Corpus[d].time THEN 3 ELSE 0)

\* the sort by (-score, idx) applied to every query
heuristic_sort_always(query, docs) ==
    sorted_reverse(docs, [d \in Docs |-> heuristic_score(d)])

\* _heuristic_sort_when_reranker_disabled: sort by (-score, idx) for a query
\* about opening hours, the given order otherwise
heuristic_sort(query, docs) ==
    IF QueryHits(query) \cap hours_terms = {} \/ docs = <<>> THEN docs
    ELSE sorted_reverse(docs, [d \in Docs |-> heuristic_score(d)])

\* boosted_scores: score + web_boost for web chunks, score for the others
boosted_scores(scores, intent) ==
    [d \in Docs |-> IF Corpus[d].source_type = "web"
                    THEN scores[d] + web_boost(intent)
                    ELSE scores[d]]

\* ranked of retrieve
rank(combined, scores, intent) ==
    sorted_reverse(combined, boosted_scores(scores, intent))

\* the chunks of seq whose boosted score is greater than the threshold
AboveOf_strict(seq, bs) ==
    SelectSeq(seq, LAMBDA d : bs[d] > RELEVANCE_THRESHOLD)

\* the chunks of seq whose boosted score is at least / below the threshold
AboveOf(seq, bs) ==
    SelectSeq(seq, LAMBDA d : bs[d] >= RELEVANCE_THRESHOLD)

BelowOf(seq, bs) ==
    SelectSeq(seq, LAMBDA d : bs[d] < RELEVANCE_THRESHOLD)

\* the selection returns the chunks above the threshold only
threshold_select_above_only(ranked, bs, top_n) ==
    Take(AboveOf(ranked, bs), top_n)

\* the selection returns nothing when no chunk reaches the threshold
threshold_select_no_fallback(ranked, bs, top_n) ==
    LET above == AboveOf(ranked, bs)
        below == BelowOf(ranked, bs)
    IN  IF above = <<>> THEN <<>>
        ELSE IF Len(above) >= top_n THEN Take(above, top_n)
        ELSE above \o Take(below, top_n - Len(above))

\* the selection does not cut the fill-up from below the threshold
threshold_select_no_cut(ranked, bs, top_n) ==
    LET above == AboveOf(ranked, bs)
        below == BelowOf(ranked, bs)
    IN  IF above = <<>> THEN Take(ranked, top_n)
        ELSE IF Len(above) >= top_n THEN Take(above, top_n)
        ELSE above \o below

\* STEP 5 of retrieve: candidate_pool
threshold_select(ranked, bs, top_n) ==
    LET above == AboveOf(ranked, bs)
        below == BelowOf(ranked, bs)
    IN  IF above = <<>> THEN Take(ranked, top_n)
        ELSE IF Len(above) >= top_n THEN Take(above, top_n)
        ELSE above \o Take(below, top_n - Len(above))

\* how a retrieve call goes: RERANKER_ENABLED is off ("disabled"); it is on
\* and scoring succeeds ("scored"), reranker.predict raises
\* ("predict_fails") or load_reranker raises ("load_fails"); or
\* build_or_load_vectorstore or a retriever raises ("index_fails")
Modes == {"disabled", "scored", "predict_fails", "load_fails", "index_fails"}

\* retrieve(query, top_n): final_docs, and ranked where the call computes it
retrieve(query, top_n, faiss_docs, bm25_docs, scores, mode) ==
    LET intent   == classify_query_intent(query)
        combined == deduplicate(faiss_docs \o bm25_docs)
        bs       == boosted_scores(scores, intent)
        ranked   == rank(combined, scores, intent)
    IN  IF mode = "index_fails" THEN [docs |-> <<>>, ranked |-> <<>>]
        ELSE IF combined = <<>> THEN [docs |-> <<>>, ranked |-> <<>>]
        ELSE IF mode = "disabled"
        THEN [docs |-> Take(heuristic_sort(query, combined), top_n),
              ranked |-> <<>>]
        ELSE IF mode = "load_fails" THEN [docs |-> <<>>, ranked |-> <<>>]
        ELSE IF mode = "predict_fails"
        THEN [docs |-> Take(heuristic_sort(query, combined), top_n),
              ranked |-> <<>>]
        ELSE [docs |-> threshold_select(ranked, bs, top_n),
              ranked |-> ranked]

NoScores == [d \in Docs |-> 0]

NoRetrieve ==
    [pc |-> "idle", query |-> "", top_n |-> 0, faiss_docs |-> <<>>,
     bm25_docs |-> <<>>, scores |-> NoScores, mode |-> "disabled",
     docs |-> <<>>, ranked |-> <<>>, raised |-> 0, before |-> <<>>]

\* the lists of at most n chunks a retriever may return: distinct chunks
RECURSIVE Lists(_)
Lists(n) ==
    IF n = 0 THEN {<<>>}
    ELSE Lists(n - 1) \cup
         {Append(l, d) : l \in {m \in Lists(n - 1) : Len(m) = n - 1},
                         d \in Docs}

Distinct(l) == \A i, j \in DOMAIN l : i # j => l[i] # l[j]

Retrieved(n) == {l \in Lists(n) : Distinct(l)}

\* a retrieve call has been made: the query, top_n, what the two retrievers return
\* (at most top_n * CANDIDATE_MULTIPLIER chunks each), what the reranker
\* scores the chunks, and how the call goes
RetrieveCalled(query, top_n, faiss_docs, bm25_docs, scores, mode) ==
    /\ Len(faiss_docs) <= top_n * CANDIDATE_MULTIPLIER
    /\ Len(bm25_docs) <= top_n * CANDIDATE_MULTIPLIER
    /\ mode = "index_fails" => faiss_docs = <<>> /\ bm25_docs = <<>>
    /\ \A d \in Docs :
          (mode # "scored"
           \/ \A i \in DOMAIN (faiss_docs \o bm25_docs) :
                 (faiss_docs \o bm25_docs)[i] # d) => scores[d] = 0
    /\ retr = [NoRetrieve EXCEPT
                  !.pc = "called", !.query = query, !.top_n = top_n,
                  !.faiss_docs = faiss_docs, !.bm25_docs = bm25_docs,
                  !.scores = scores, !.mode = mode]

\* retrieve runs to its return
RetrieveReturn ==
    /\ retr.pc = "called"
    /\ \E r \in {retrieve(retr.query, retr.top_n, retr.faiss_docs,
                          retr.bm25_docs, retr.scores, retr.mode)} :
          retr' = [retr EXCEPT !.pc = "returned", !.docs = r.docs,
                               !.ranked = r.ranked]
    /\ UNCHANGED <<dbvars, agentvars, idx, store>>

\* the same call is made again with the reranker scoring chunk d higher and
\* everything else as before
RetrieveRaised(d, score) ==
    /\ retr.pc = "returned"
    /\ retr.mode = "scored"
    /\ \E i \in DOMAIN retr.ranked : retr.ranked[i] = d
    /\ score > retr.scores[d]
    /\ \E sc \in {[retr.scores EXCEPT ![d] = score]} :
       \E r \in {retrieve(retr.query, retr.top_n, retr.faiss_docs,
                          retr.bm25_docs, sc, retr.mode)} :
          retr' = [retr EXCEPT !.scores = sc, !.docs = r.docs,
                               !.ranked = r.ranked, !.raised = d,
                               !.before = retr.ranked]
    /\ UNCHANGED <<dbvars, agentvars, idx, store>>

\* the files of data/clean_text, and the chunks made of them: a chunk set is
\* the set of files it was read from.  The clients of the shared BM25
\* retriever are POST /retrieve (top_n = request.k) and POST /chat or a voice
\* turn's _ask_rag (top_n = 20, written 2 here).
Files == {"kontakt.txt", "pdf__anmeldung.txt", "pdf__preise.txt"}

Clients == {"retrieve", "chat"}

IdleClient == [pc |-> "idle", top_n |-> 0, used_k |-> 0, calls |-> 0]

\* the application has started with the files fs in data/clean_text and no
\* index on disk: build_or_load_vectorstore has loaded the chunks and built
\* the index from them
StoreAtStartup(fs) ==
    [files |-> fs, all_chunks |-> Some(fs), faiss |-> Some(fs),
     bm25 |-> None, ingests |-> 0, k |-> 0,
     c |-> [cl \in Clients |-> IdleClient]]

\* the application has started with an index on disk, built by an earlier
\* process from the files fs0: FAISS.load_local, no chunks loaded yet
StoreLoadedFromDisk(fs, fs0) ==
    [StoreAtStartup(fs) EXCEPT !.all_chunks = None, !.faiss = Some(fs0)]

StoreFrame == UNCHANGED <<dbvars, agentvars, retr, idx>>

\* load_all_chunks: the cached chunks when there are any, else the chunks of
\* the files now in data/clean_text, which it caches
load_all_chunks(st) ==
    IF st.all_chunks # None THEN st
    ELSE [st EXCEPT !.all_chunks = Some(st.files)]

\* get_bm25: the cached retriever, or one built from all_chunks
get_bm25(st) ==
    IF st.bm25 # None THEN st
    ELSE [st EXCEPT !.bm25 = st.all_chunks]

\* POST /ingest_pdfs or GET /scrape writes file f to data/clean_text
AddFile(f) ==
    /\ f \in Files \ store.files
    /\ store' = [store EXCEPT !.files = @ \cup {f}]
    /\ StoreFrame

\* POST /ingest: build_or_load_vectorstore(force_rebuild=True) builds the
\* index from load_all_chunks()
IngestData ==
    /\ store.ingests < MaxIngests
    /\ \E st \in {load_all_chunks(store)} :
          store' = [st EXCEPT !.faiss = st.all_chunks, !.ingests = @ + 1]
    /\ StoreFrame

\* retrieve up to get_bm25: the cached index, load_all_chunks(), get_bm25()
RetrieveLoads ==
    /\ store' = get_bm25(load_all_chunks(store))
    /\ store' # store
    /\ StoreFrame

\* top_n of a client's retrieve calls: request.k of POST /retrieve, 20 of
\* ask_llm
ChatTopN == 20

TopNs(cl) == IF cl = "chat" THEN {ChatTopN} ELSE 1..MaxTopN

\* a client calls retrieve with top_n, in a thread of the pool: the chunks and
\* the shared retriever are loaded, and "bm25.k = n_candidates" sets the
\* attribute of the shared retriever
SetK(cl, top_n) ==
    /\ store.c[cl].pc = "idle"
    /\ store.c[cl].calls < MaxClientCalls
    /\ store' = [get_bm25(load_all_chunks(store)) EXCEPT
                              !.k = top_n * CANDIDATE_MULTIPLIER,
                              !.c[cl].pc = "set",
                              !.c[cl].top_n = top_n,
                              !.c[cl].calls = @ + 1]
    /\ StoreFrame

\* "bm25_docs = bm25.invoke(normalized_q)" fetches bm25.k candidates
InvokeBm25(cl) ==
    /\ store.c[cl].pc = "set"
    /\ store' = [store EXCEPT !.c[cl].pc = "idle", !.c[cl].used_k = store.k]
    /\ StoreFrame

\* build_or_load_vectorstore as the threads of the server's pool call it:
\* POST /ingest with force_rebuild=True, POST /chat and POST /retrieve (through
\* retrieve) without.  An index is the number of the build that made it.
Threads == {"ingest", "chat", "retrieve"}
Readers == {"chat", "retrieve"}

NoIndex == 0

IdleThread == [pc |-> "idle", force |-> FALSE, result |-> NoIndex, calls |-> 0]

\* the application has started: the index is built, saved and cached
IndexAtStartup ==
    [cache |-> 1, disk |-> 1, built |-> 1,
     t |-> [th \in Threads |-> IdleThread]]

InitRagVars ==
    /\ retr = NoRetrieve
    /\ idx = IndexAtStartup
    /\ store = StoreAtStartup(Files)

\* thread th moves to pc
Goto(th, pc) == [idx EXCEPT !.t[th].pc = pc]

\* build_or_load_vectorstore touches nothing but its globals and the disk
IndexFrame == UNCHANGED <<dbvars, agentvars, retr, store>>

\* the call starts
BuildOrLoadCall(th) ==
    /\ idx.t[th].pc = "idle"
    /\ idx.t[th].calls < MaxIndexCalls
    /\ idx' = [idx EXCEPT !.t[th].pc = "force_check",
                          !.t[th].force = (th = "ingest"),
                          !.t[th].result = NoIndex,
                          !.t[th].calls = @ + 1]
    /\ IndexFrame

\* "if force_rebuild and os.path.exists(VECTOR_DB_PATH): shutil.rmtree(...)"
ForceCheck(th) ==
    /\ idx.t[th].pc = "force_check"
    /\ idx' = IF idx.t[th].force /\ idx.disk # NoIndex
              THEN [Goto(th, "drop_cache") EXCEPT !.disk = NoIndex]
              ELSE Goto(th, "cache_check")
    /\ IndexFrame

\* "_vector_store_cache = None"
DropCache(th) ==
    /\ idx.t[th].pc = "drop_cache"
    /\ idx' = [Goto(th, "cache_check") EXCEPT !.cache = NoIndex]
    /\ IndexFrame

\* "if _vector_store_cache is not None and not force_rebuild: return ..."
CacheCheck(th) ==
    /\ idx.t[th].pc = "cache_check"
    /\ idx' = IF idx.cache # NoIndex /\ ~idx.t[th].force
              THEN [Goto(th, "done") EXCEPT !.t[th].result = idx.cache]
              ELSE Goto(th, "load")
    /\ IndexFrame

\* the try block: FAISS.load_local when the index is on disk and no rebuild
\* is forced, FileNotFoundError otherwise
LoadLocal(th) ==
    /\ idx.t[th].pc = "load"
    /\ idx' = IF idx.disk # NoIndex /\ ~idx.t[th].force
              THEN [Goto(th, "done") EXCEPT !.cache = idx.disk,
                                            !.t[th].result = idx.disk]
              ELSE Goto(th, "build")
    /\ IndexFrame

\* the except block: "_vector_store_cache = FAISS.from_documents(...)"
BuildIndex(th) ==
    /\ idx.t[th].pc = "build"
    /\ idx' = [Goto(th, "save") EXCEPT !.built = @ + 1,
                                       !.cache = idx.built + 1]
    /\ IndexFrame

\* "_vector_store_cache.save_local(VECTOR_DB_PATH)" and the return; both
\* read the global, which another thread may have set to None meanwhile
SaveLocal(th) ==
    /\ idx.t[th].pc = "save"
    /\ idx' = IF idx.cache = NoIndex
              THEN Goto(th, "raised")
              ELSE [Goto(th, "done") EXCEPT !.disk = idx.cache,
                                            !.t[th].result = idx.cache]
    /\ IndexFrame

\* the caller goes on
BuildOrLoadReturn(th) ==
    /\ idx.t[th].pc \in {"done", "raised"}
    /\ idx' = Goto(th, "idle")
    /\ IndexFrame

----------------------------------------------------------------------------
(* Slot Store properties *)

SameKey(a, b) ==
    a.date = b.date /\ a.time = b.time /\ a.service = b.service

\* the step is one of caller c's own statements
StepOf(c) == conn'[c] # conn[c]

TablesUnchanged ==
    available_slots' = available_slots /\ appointments' = appointments

Returned(c, op) == conn[c].op = op /\ conn[c].pc = "done"

\* C1: two concurrent book_appointment calls for one open slot, with no
\* statement raising, end with exactly one success and one failure.
C1_NoDoubleBooking ==
    \A c \in Conns, d \in Conns :
        ( /\ c # d
          /\ Returned(c, "book") /\ Returned(d, "book")
          /\ SameKey(conn[c], conn[d])
          /\ conn[c].open_at_call /\ conn[d].open_at_call
          /\ ~conn[c].faulted /\ ~conn[d].faulted )
        => (conn[c].result.success # conn[d].result.success)

\* C3: a book_appointment call that returns success adds exactly one
\* appointment row (the call's arguments, confirmed) and sets exactly the one
\* matching slot row to is_booked = 1; every other statement of the call,
\* and a call that returns failure, leaves both committed tables as they were.
C3_BookStep(c) ==
    IF conn'[c].pc = "done" /\ conn'[c].result.success
    THEN /\ appointments' =
              InsertAppointment(appointments, conn[c].name, conn[c].phone,
                  conn[c].service, conn[c].date, conn[c].time, conn[c].room_id)
         /\ conn'[c].result.appointment_id = Len(appointments')
         /\ DOMAIN available_slots' = DOMAIN available_slots
         /\ Cardinality({i \in DOMAIN available_slots :
                            SameKey(available_slots[i], conn[c])}) = 1
         /\ \A i \in DOMAIN available_slots :
               IF SameKey(available_slots[i], conn[c])
               THEN available_slots'[i] =
                        [available_slots[i] EXCEPT !.is_booked = 1]
               ELSE available_slots'[i] = available_slots[i]
    ELSE TablesUnchanged

C3_AtomicBooking ==
    [][\A c \in Conns :
          (conn[c].op = "book" /\ Running(c) /\ StepOf(c)) => C3_BookStep(c)]_vars

\* C3 witness: one call has failed at the insert, after its slot update ran,
\* and another call has returned success
C3_Witness ==
    \E c \in Conns, d \in Conns :
        /\ Returned(c, "book") /\ conn[c].raised_at = "book_insert"
        /\ Returned(d, "book") /\ conn[d].result.success

\* C4: cancel_appointment on an existing id applies both writes in one step
\* (slot is_booked = 0, appointment status cancelled) when it returns success,
\* and none of its other steps changes a committed table.
C4_CancelStep(c) ==
    IF conn'[c].pc = "done" /\ conn'[c].result.success
    THEN /\ appointments' = UpdateStatusCancelled(appointments, conn[c].id)
         /\ appointments'[conn[c].id].status = "cancelled"
         /\ available_slots' =
              UpdateIsBooked(available_slots, appointments[conn[c].id].date,
                  appointments[conn[c].id].time,
                  appointments[conn[c].id].service, 0)
         /\ \A i \in DOMAIN available_slots' :
               SameKey(available_slots'[i], appointments[conn[c].id])
                   => available_slots'[i].is_booked = 0
    ELSE TablesUnchanged

C4_AtomicCancellation ==
    [][\A c \in Conns :
          ( /\ conn[c].op = "cancel" /\ Running(c) /\ StepOf(c)
            /\ conn[c].id \in DOMAIN appointments ) => C4_CancelStep(c)]_vars

\* C4 witness: a cancellation has succeeded on a booked slot and another one
\* has failed at its second write
C4_Witness ==
    \E c \in Conns, d \in Conns :
        /\ Returned(c, "cancel") /\ conn[c].result.success
        /\ Returned(d, "cancel") /\ conn[d].raised_at = "cancel_status"

\* C5: cancel_appointment with an id that matches no appointment returns
\* {success: False, error: "Appointment not found"} and changes no row.
C5_CancelNotFound ==
    [][\A c \in Conns :
          ( /\ conn[c].pc = "cancel_select" /\ StepOf(c)
            /\ conn[c].id \notin DOMAIN appointments
            /\ ~conn'[c].faulted )
          => /\ conn'[c].pc = "done"
             /\ conn'[c].result = Fail("Appointment not found")
             /\ TablesUnchanged /\ wlock' = wlock]_vars

\* C5 witness: a cancel call for an unknown id has returned while the store
\* holds slots and an appointment
C5_Witness ==
    \E c \in Conns :
        /\ Returned(c, "cancel")
        /\ conn[c].result.error = "Appointment not found"
        /\ appointments # <<>>

\* C6: no two slot rows share (date, time, service), and a seed_slots run for
\* a date window that an earlier run has seeded leaves the table as it was.
NoDuplicateSlots(tbl) ==
    \A i \in DOMAIN tbl, j \in DOMAIN tbl :
        SameKey(tbl[i], tbl[j]) => i = j

C6_IdempotentSeeding ==
    [][/\ NoDuplicateSlots(available_slots')
       /\ ( /\ seedRun.pc = "commit" /\ seedRun'.pc = "idle"
            /\ seedRun.today \in seedRun.done )
          => available_slots' = available_slots]_vars

\* C6 witness: a window has been seeded a second time, with a slot of it
\* booked in between
C6_Witness ==
    /\ seedRun.repeated
    /\ \E i \in DOMAIN available_slots : available_slots[i].is_booked = 1

----------------------------------------------------------------------------
(* Dialogue properties *)

\* the booking fields of a session
BookingFields(s) ==
    <<s.service, s.date, s.time, s.name, s.phone, s.available_slots>>

\* the committed slot row a session at CONFIRM_BOOKING refers to is booked
SlotAlreadyBooked(s) ==
    /\ None \notin {s.service, s.date, s.time}
    /\ \E i \in DOMAIN available_slots :
          /\ available_slots[i].date = Val(s.date)
          /\ available_slots[i].time = Val(s.time)
          /\ available_slots[i].service = Val(s.service)
          /\ available_slots[i].is_booked = 1

C2_StaleConfirmTurn(text) ==
    /\ Message("test-room", text, FALSE)
    /\ get_session("test-room").state = CONFIRM_BOOKING
    /\ detect_intent(text) \notin {"cancel", "go_back"}
    /\ detect_yes_no(text) = Some("yes")
    /\ SlotAlreadyBooked(get_session("test-room"))

\* C2: a conversation that confirms (CONFIRM_BOOKING + yes) a slot another
\* caller booked after the session stored its available_slots snapshot is
\* told the booking failed and no appointment is inserted, so that the slot
\* keeps its one confirmed appointment.
C2_StaleConfirmFails ==
    [][\A text \in BookingScript :
          C2_StaleConfirmTurn(text) =>
              /\ resp'["test-room"].text[1][1] = "booking_failed"
              /\ appointments' = appointments]_vars

\* C7: on a session that starts in state s0 with empty state_history, n
\* transition_to calls followed by n go_back calls end in state s0 with
\* state_history empty, and every one of the go_back calls returned True.
C7_HistoryRoundTrip ==
    (probe.fwd > 0 /\ probe.back = probe.fwd) =>
        /\ Val(sessions["test-room"]).state = probe.origin
        /\ Val(sessions["test-room"]).state_history = <<>>
        /\ probe.all_true

C7_Witness ==
    /\ probe.fwd >= 2
    /\ probe.back = probe.fwd
    /\ Val(sessions["test-room"]).state = probe.origin
    /\ Val(sessions["test-room"]).state_history = <<>>

\* the step is a turn of room test-room that ran from the text to its end
\* without suspending
TurnOf(text) ==
    /\ calls' = calls + 1
    /\ pending' = pending
    /\ resp'["test-room"].request = text

C8_CancelTurn(text) ==
    /\ TurnOf(text)
    /\ detect_intent(text) = "cancel"
    /\ get_session("test-room").state \notin {IDLE, GREETING}

\* C8: in every state other than IDLE and GREETING a turn whose text is
\* classified as cancel ends with state IDLE, every booking field null,
\* available_slots, state_history and pre_faq_state cleared, the response the
\* cancellation message, and both tables of the Slot Store as they were.
C8_UniversalCancel ==
    [][\A text \in Utterances :
          C8_CancelTurn(text) =>
              LET s == Val(sessions'["test-room"]) IN
              /\ s.state = IDLE
              /\ BookingFields(s) = <<None, None, None, None, None, <<>> >>
              /\ s.state_history = <<>>
              /\ s.pre_faq_state = None
              /\ resp'["test-room"] =
                     To(text, Returned_(<<R("cancelled",
                                  get_session("test-room").language)>>))
              /\ TablesUnchanged]_vars

C8_Witness ==
    /\ sessions["test-room"] # None
    /\ detect_intent(resp["test-room"].request) = "cancel"
    /\ resp["test-room"].outcome = "returned"
    /\ resp["test-room"].text[1][1] = "cancelled"
    /\ Val(sessions["test-room"]).state = IDLE
    /\ Val(sessions["test-room"]).state_history = <<>>

C9_GoBackTurn(text) ==
    /\ TurnOf(text)
    /\ detect_intent(text) = "go_back"
    /\ get_session("test-room").state_history # <<>>

\* C9: a go-back turn on a session with a non-empty state_history restores
\* the most recently pushed state, shortens state_history by exactly one
\* entry and returns a response that contains the prompt of the restored
\* state.
C9_GoBackRestores ==
    [][\A text \in Utterances :
          C9_GoBackTurn(text) =>
              LET s0 == get_session("test-room")
                  s  == Val(sessions'["test-room"])
                  n  == Len(s0.state_history)
              IN
              /\ s.state = s0.state_history[n]
              /\ s.state_history = SubSeq(s0.state_history, 1, n - 1)
              /\ resp'["test-room"].outcome = "returned"
              /\ resp'["test-room"].text =
                     <<R("went_back", s.language), PromptText(s)>>]_vars

C10_BackAtStartTurn(text) ==
    /\ TurnOf(text)
    /\ detect_intent(text) = "go_back"
    /\ get_session("test-room").state_history = <<>>

\* C10: a go-back turn on a session with an empty state_history returns the
\* "already at the beginning" message and leaves the session's state, its
\* state_history and all its booking fields as they were.
C10_GoBackAtBeginning ==
    [][\A text \in Utterances :
          C10_BackAtStartTurn(text) =>
              LET s0 == get_session("test-room")
                  s  == Val(sessions'["test-room"])
              IN
              /\ resp'["test-room"].outcome = "returned"
              /\ resp'["test-room"].text = <<R("at_beginning", s.language)>>
              /\ s.state = s0.state
              /\ s.state_history = s0.state_history
              /\ BookingFields(s) = BookingFields(s0)]_vars

C10_Witness ==
    /\ sessions["test-room"] # None
    /\ detect_intent(resp["test-room"].request) = "go_back"
    /\ resp["test-room"].outcome = "returned"
    /\ resp["test-room"].text[1][1] = "at_beginning"
    /\ Val(sessions["test-room"]).state_history = <<>>

\* a turn of room test-room on the text starts with this step (it may
\* suspend at an await)
StartsTurn(text) == Message("test-room", text, FALSE)

IsPrefix(h, g) == Len(h) <= Len(g) /\ SubSeq(g, 1, Len(h)) = h

C12_InterruptMemory ==
    \A r \in Rooms :
        (sessions[r] # None /\ Val(sessions[r]).pre_faq_state # None)
            => Val(sessions[r]).state = FAQ

\* the step ends the k-th suspended turn of room test-room
EndsTurn(k) ==
    \E answer \in Answers : RagDone("test-room", k, answer)

\* C13: a text handled as an FAQ interrupt in COLLECT_SERVICE or COLLECT_DATE
\* ends its turn with the state, the booking fields, the available_slots and
\* the state_history the session had before the turn, whatever _ask_rag
\* returned.
C13_InterruptRestores ==
    [][\A k \in DOMAIN pending["test-room"] :
          (EndsTurn(k) /\ pending["test-room"][k].kind = "interrupt")
          => LET s0 == pending["test-room"][k].found
                 s  == Val(sessions'["test-room"])
             IN  /\ s0.state \in {COLLECT_SERVICE, COLLECT_DATE}
                 /\ s.state = s0.state
                 /\ BookingFields(s) = BookingFields(s0)
                 /\ s.state_history = s0.state_history]_vars

\* the text is not the value state st asks for and is no FAQ interrupt
Unrecognised(s0, text) ==
    CASE s0.state = COLLECT_SERVICE ->
            detect_service(text) = None /\ detect_intent(text) # "faq"
      [] s0.state = COLLECT_DATE ->
            detect_date(text, today) = None /\ detect_intent(text) # "faq"
      [] s0.state = COLLECT_SLOT ->
            detect_time(text, s0.available_slots) = None
      [] s0.state = COLLECT_NAME -> Len(TitleText(text)) < 2
      [] s0.state = COLLECT_PHONE -> Len(PhoneOf(text)) < 9
      [] s0.state = CONFIRM_BOOKING -> detect_yes_no(text) = None
      [] OTHER -> FALSE

RepromptKey(st) ==
    CASE st = COLLECT_SERVICE -> "service_not_found"
      [] st = COLLECT_DATE    -> "date_not_found"
      [] st = COLLECT_SLOT    -> "time_not_found"
      [] st = COLLECT_NAME    -> "ask_name"
      [] st = COLLECT_PHONE   -> "phone_invalid"
      [] st = CONFIRM_BOOKING -> "confirm_yes_no"
      [] OTHER                -> ""

C15_NeverAborts ==
    \A r \in Rooms : resp[r].outcome # "raised"

Cleared(s) ==
    /\ s.state = IDLE
    /\ BookingFields(s) = <<None, None, None, None, None, <<>> >>
    /\ s.state_history = <<>>

C16_ConfirmTurn(text) ==
    /\ TurnOf(text)
    /\ get_session("test-room").state = CONFIRM_BOOKING
    /\ detect_intent(text) \notin {"cancel", "go_back"}
    /\ detect_yes_no(text) = Some("yes")

\* C16: in CONFIRM_BOOKING a text classified yes makes one book_appointment
\* call with the session's name, phone, service, date, time and room id.
\* When the call succeeds the turn ends in IDLE with the booking fields and
\* state_history cleared and the success message; when it fails the turn
\* ends in IDLE with the booking fields cleared and the failure message, and
\* nothing is written by a second attempt.
C16_ConfirmBooking ==
    [][\A text \in Utterances :
          C16_ConfirmTurn(text) =>
             LET s0 == get_session("test-room")
                 s  == Val(sessions'["test-room"])
             IN
             \/ /\ None \notin {s0.name, s0.phone, s0.service, s0.date, s0.time}
                /\ faults' = faults
                /\ appointments' =
                      Append(appointments,
                             [name |-> Val(s0.name), phone |-> Val(s0.phone),
                              service |-> Val(s0.service),
                              date |-> Val(s0.date), time |-> Val(s0.time),
                              status |-> "confirmed", room_id |-> "test-room"])
                /\ available_slots' =
                      UpdateIsBooked(available_slots, Val(s0.date),
                                     Val(s0.time), Val(s0.service), 1)
                /\ Cleared(s)
                /\ resp'["test-room"].text = <<R("booking_success", s0.language)>>
             \/ /\ \/ None \in {s0.name, s0.phone, s0.service, s0.date, s0.time}
                   \/ faults' = faults + 1
                /\ TablesUnchanged
                /\ Cleared(s)
                /\ resp'["test-room"].text = <<R("booking_failed", s0.language)>>]_vars

C16_Witness ==
    /\ sessions["test-room"] # None
    /\ Cleared(Val(sessions["test-room"]))
    /\ detect_yes_no(resp["test-room"].request) = Some("yes")
    /\ resp["test-room"].text[1][1] = "booking_success"
    /\ \E i \in DOMAIN appointments : appointments[i].room_id = "test-room"

C17_DeclineTurn(text) ==
    /\ TurnOf(text)
    /\ get_session("test-room").state = CONFIRM_BOOKING
    /\ detect_intent(text) # "go_back"
    /\ detect_yes_no(text) = Some("no")

\* C17: in CONFIRM_BOOKING a text classified no resets the session to IDLE
\* and returns the cancellation message; book_appointment is not called and
\* no slot row and no appointment row changes.
C17_DeclineBooking ==
    [][\A text \in Utterances :
          C17_DeclineTurn(text) =>
             LET s0 == get_session("test-room")
                 s  == Val(sessions'["test-room"])
             IN  /\ Cleared(s)
                 /\ s.pre_faq_state = None
                 /\ resp'["test-room"].outcome = "returned"
                 /\ resp'["test-room"].text = <<R("cancelled", s0.language)>>
                 /\ TablesUnchanged
                 /\ faults' = faults
                 /\ wlock' = wlock]_vars

C17_Witness ==
    /\ sessions["test-room"] # None
    /\ Cleared(Val(sessions["test-room"]))
    /\ resp["test-room"].request = <<"no">>
    /\ resp["test-room"].text[1][1] = "cancelled"
    /\ appointments = <<>>

\* a session with nothing collected, in IDLE, that speaks language lang
Fresh(lang) == [NewSession("test-room") EXCEPT !.language = lang]

\* C18: a turn that starts in BOOKING_DONE resets the session to IDLE and
\* processes the same text through one nested call of process_message, which
\* handles it as a fresh IDLE intent; no text in any state leads to a second
\* nested call.
C18_BoundedReentry ==
    [][\A text \in Utterances :
          StartsTurn(text) =>
             LET s0 == get_session("test-room")
                 t  == Turn(s0, text, today, available_slots)
                 re == /\ s0.state = BOOKING_DONE
                       /\ detect_intent(text) \notin {"cancel", "go_back"}
             IN  /\ t.reentries <= 1
                 /\ (t.reentries = 1) <=> re
                 /\ re => /\ [t EXCEPT !.reentries = 0] =
                               Turn(Fresh(s0.language), text, today,
                                    available_slots)
                          /\ Val(sessions'["test-room"]) =
                               Turn(Fresh(s0.language), text, today,
                                    available_slots).session]_vars

C18_Witness ==
    /\ probe.origin = BOOKING_DONE
    /\ calls = 1
    /\ resp["test-room"].request = <<"book">>
    /\ resp["test-room"].text = <<R("ask_service", "en")>>
    /\ Val(sessions["test-room"]).state = COLLECT_SERVICE
    /\ Val(sessions["test-room"]).state_history = <<IDLE>>
    /\ BookingFields(Val(sessions["test-room"])) =
           <<None, None, None, None, None, <<>> >>

\* the committed rows of day d that are open, of service svc when the
\* session has one
OpenRows(d, svc) ==
    {i \in DOMAIN available_slots :
        /\ available_slots[i].date = d
        /\ available_slots[i].is_booked = 0
        /\ (svc = None \/ available_slots[i].service = Val(svc))}

C19_DateTurn(text) ==
    /\ TurnOf(text)
    /\ get_session("test-room").state = COLLECT_DATE
    /\ detect_intent(text) \notin {"cancel", "go_back"}
    /\ detect_date(text, today) # None

\* C19: in COLLECT_DATE with a parsed date, when the Slot Store has an open
\* slot for (date, session.service) the session stores the date and the
\* returned slots and moves to COLLECT_SLOT; when it has none the session
\* stays in COLLECT_DATE and date and available_slots keep their values.
C19_CollectDateOutcome ==
    [][\A text \in Utterances :
          C19_DateTurn(text) =>
             LET s0 == get_session("test-room")
                 s  == Val(sessions'["test-room"])
                 d  == Val(detect_date(text, today))
                 open == OpenRows(d, s0.service)
             IN  IF open # {}
                 THEN /\ s.state = COLLECT_SLOT
                      /\ s.date = Some(d)
                      /\ {s.available_slots[k] : k \in DOMAIN s.available_slots}
                            = {available_slots[i] : i \in open}
                      /\ Len(s.available_slots) = Cardinality(open)
                      /\ \A k \in 1..(Len(s.available_slots) - 1) :
                            s.available_slots[k].time
                               <= s.available_slots[k + 1].time
                      /\ s.state_history = Append(s0.state_history, COLLECT_DATE)
                 ELSE /\ s.state = COLLECT_DATE
                      /\ s.date = s0.date
                      /\ s.available_slots = s0.available_slots
                      /\ s.state_history = s0.state_history]_vars

\* a session still in COLLECT_DATE after a date without open slots
C19_Witness ==
    /\ sessions["test-room"] # None
    /\ Val(sessions["test-room"]).state = COLLECT_DATE
    /\ detect_date(resp["test-room"].request, today) = Some(today + 7)
    /\ resp["test-room"].text[1][1] = "no_slots"
    /\ OpenRows(today + 7, Val(sessions["test-room"]).service) = {}
    /\ OpenRows(today + 1, Val(sessions["test-room"]).service) # {}

\* C20: at most one message per conversation is in flight: a turn of a
\* session starts only when no other turn of that session is suspended at
\* its await, so no turn finds the session changed when it resumes.
C20_OneMessageInFlight ==
    [][(calls' = calls + 1) => pending["room-1"] = <<>>]_vars

\* C21: responses are handed to the transport in the order their messages
\* were received: a turn that ran to its end without suspending hands over
\* its response only when no turn of an earlier message of the room is still
\* waiting for its FAQ answer.
C21_ResponseOrder ==
    [][(/\ calls' = calls + 1
        /\ pending' = pending
        /\ resp'["room-1"].outcome = "returned")
       => pending["room-1"] = <<>>]_vars

\* the step is a turn of room r for the text, up to its return, raise or
\* first await
TurnIn(r, text) == Message(r, text, FALSE)

\* the session of every room other than r is left as it was
OthersUnchanged(r) == \A q \in Rooms \ {r} : sessions'[q] = sessions[q]

\* C22: the first lookup of a conversation id creates its BookingSession and
\* every later lookup, until clear_session for that id, returns that same
\* session: a turn works on a new session of the room when the registry has
\* none and on the registered one otherwise, only clear_session removes a
\* session, and a turn of one conversation leaves the session of every other
\* conversation unchanged.
C22_SessionRegistry ==
    [][\A r \in Rooms :
          /\ \A text \in Utterances :
                TurnIn(r, text) =>
                   LET found == IF sessions[r] = None
                                THEN NewSession(r)
                                ELSE Val(sessions[r])
                       t == Turn(found, text, today, available_slots)
                   IN /\ sessions'[r] # None
                      /\ Val(sessions'[r]).room_id = r
                      /\ t.kind # "book" => sessions'[r] = Some(t.session)
                      /\ OthersUnchanged(r)
          /\ \A k \in 1..MaxPending, answer \in Answers :
                RagDone(r, k, answer) => OthersUnchanged(r)
          /\ (sessions[r] # None /\ sessions'[r] = None) => Disconnect(r)]_vars

\* two conversations, each with a session of its own that a later turn found
\* again
C22_Witness ==
    /\ sessions["test-room"] # None
    /\ sessions["room-1"] # None
    /\ Val(sessions["test-room"]).state = COLLECT_DATE
    /\ Val(sessions["room-1"]).state = COLLECT_SERVICE
    /\ Val(sessions["test-room"]).room_id = "test-room"
    /\ Val(sessions["room-1"]).room_id = "room-1"

C23_GermanCancelTurn ==
    /\ TurnOf(GermanCancel)
    /\ get_session("test-room").state = CONFIRM_BOOKING

\* C23: "nein, abbrechen" sent in CONFIRM_BOOKING resets the session fully
\* (every booking field null, state IDLE) and the response is the
\* cancellation message in German.
C23_GermanCancel ==
    [][C23_GermanCancelTurn =>
          /\ Cleared(Val(sessions'["test-room"]))
          /\ resp'["test-room"].outcome = "returned"
          /\ resp'["test-room"].text = <<R("cancelled", "de")>>]_vars

----------------------------------------------------------------------------
(* Hybrid Retriever properties *)

\* the retrieve call has returned after the reranker scored the candidates
Scored == retr.pc = "returned" /\ retr.mode = "scored"

\* the deduplicated merge of the call's candidates
Combined == deduplicate(retr.faiss_docs \o retr.bm25_docs)

\* the boosted score of chunk d in the call
Boosted(d) ==
    IF Corpus[d].source_type = "web"
    THEN retr.scores[d] + web_boost(classify_query_intent(retr.query))
    ELSE retr.scores[d]

\* the place of chunk d in seq
PlaceIn(seq, d) == CHOOSE i \in DOMAIN seq : seq[i] = d

IsIn(seq, d) == \E i \in DOMAIN seq : seq[i] = d

\* C24: retrieve returns at most top_n chunks, and after a successful scoring
\* the returned chunks are in non-increasing order of boosted score.
C24_AtMostOrdered ==
    retr.pc = "returned" =>
       /\ Len(retr.docs) <= retr.top_n
       /\ retr.mode = "scored" =>
             \A i, j \in DOMAIN retr.docs :
                i < j => Boosted(retr.docs[i]) >= Boosted(retr.docs[j])

\* more candidates than top_n, cut to top_n chunks of different boosted scores
C24_Witness ==
    /\ Scored
    /\ Len(Combined) > retr.top_n
    /\ Len(retr.docs) = retr.top_n
    /\ retr.top_n = 2
    /\ Boosted(retr.docs[1]) > Boosted(retr.docs[2])

\* C25: of two candidates with equal boosted scores the one with the higher
\* pre-boost score is ranked first, and candidates equal in both scores keep
\* the order of the deduplicated merge.
C25_TieBreaking ==
    Scored =>
       \A i, j \in DOMAIN retr.ranked :
          (i < j /\ Boosted(retr.ranked[i]) = Boosted(retr.ranked[j])) =>
             \/ retr.scores[retr.ranked[i]] > retr.scores[retr.ranked[j]]
             \/ /\ retr.scores[retr.ranked[i]] = retr.scores[retr.ranked[j]]
                /\ PlaceIn(Combined, retr.ranked[i])
                      < PlaceIn(Combined, retr.ranked[j])

\* C26: with above the ranked candidates whose boosted score is at least the
\* threshold and below the others, retrieve returns the first top_n of above
\* when above has at least top_n entries, and otherwise all of above followed
\* by the first top_n - |above| entries of below.
C26_ThresholdSelection ==
    Scored =>
       LET above == SelectSeq(retr.ranked,
                        LAMBDA d : Boosted(d) >= RELEVANCE_THRESHOLD)
           below == SelectSeq(retr.ranked,
                        LAMBDA d : Boosted(d) < RELEVANCE_THRESHOLD)
       IN  retr.docs =
              IF Len(above) >= retr.top_n
              THEN SubSeq(above, 1, retr.top_n)
              ELSE above \o SubSeq(below, 1,
                               IF retr.top_n - Len(above) < Len(below)
                               THEN retr.top_n - Len(above) ELSE Len(below))

\* one chunk above the threshold, two below it, and two chunks returned
C26_Witness ==
    /\ Scored
    /\ retr.top_n = 2
    /\ Len(retr.docs) = 2
    /\ Len(retr.ranked) >= 3
    /\ Boosted(retr.docs[1]) >= RELEVANCE_THRESHOLD
    /\ Boosted(retr.docs[2]) < RELEVANCE_THRESHOLD
    /\ retr.docs[2] = retr.ranked[2]

\* C27: when there are candidates and the boosted score of none reaches the
\* threshold, retrieve with top_n >= 1 returns min(top_n, number of
\* candidates) chunks, none of them scored lower than a candidate it leaves
\* out, and so never the empty result.
C27_ThresholdFallback ==
    (/\ Scored
     /\ Combined # <<>>
     /\ retr.top_n >= 1
     /\ \A i \in DOMAIN Combined : Boosted(Combined[i]) < RELEVANCE_THRESHOLD)
    => /\ retr.docs # <<>>
       /\ Len(retr.docs) = IF retr.top_n < Len(Combined)
                           THEN retr.top_n ELSE Len(Combined)
       /\ \A i \in DOMAIN retr.docs : IsIn(Combined, retr.docs[i])
       /\ \A i \in DOMAIN retr.docs, k \in DOMAIN Combined :
             ~IsIn(retr.docs, Combined[k]) =>
                Boosted(retr.docs[i]) >= Boosted(Combined[k])

\* three candidates all below the threshold, the two best returned
C27_Witness ==
    /\ Scored
    /\ Len(Combined) = 3
    /\ \A i \in DOMAIN Combined : Boosted(Combined[i]) < RELEVANCE_THRESHOLD
    /\ retr.top_n = 2
    /\ Len(retr.docs) = 2
    /\ \E k \in DOMAIN Combined :
          /\ ~IsIn(retr.docs, Combined[k])
          /\ Boosted(Combined[k]) < Boosted(retr.docs[2])

\* C28: retrieve returns the empty sequence only when the deduplicated merge
\* of the semantic and lexical candidates is empty, also when the index or
\* the scoring fails.
C28_EmptyOnlyWithoutCandidates ==
    (retr.pc = "returned" /\ retr.docs = <<>>) => Combined = <<>>

\* chunk a is ranked before chunk b
Before(ranked, a, b) ==
    /\ IsIn(ranked, a)
    /\ IsIn(ranked, b)
    /\ PlaceIn(ranked, a) < PlaceIn(ranked, b)

\* C29: for two candidates of equal source type, a higher pre-boost score of
\* one of them, all else as it was, never ranks it behind the other when it
\* was ranked before it, whatever the intent and the sign of the scores.
C29_BoostMonotone ==
    [][\A a, b \in Docs :
          (/\ Scored
           /\ retr'.pc = "returned"
           /\ a # b
           /\ Corpus[a].source_type = Corpus[b].source_type
           /\ retr'.scores[a] > retr.scores[a]
           /\ \A d \in Docs \ {a} : retr'.scores[d] = retr.scores[d]
           /\ retr'.query = retr.query
           /\ retr'.faiss_docs = retr.faiss_docs
           /\ retr'.bm25_docs = retr.bm25_docs
           /\ Before(retr.ranked, a, b))
          => Before(retr'.ranked, a, b)]_vars

\* a web chunk scored higher has overtaken another web chunk under a boost
C29_Witness ==
    /\ Scored
    /\ retr.raised # 0
    /\ web_boost(classify_query_intent(retr.query)) > 0
    /\ \E b \in Docs :
          /\ Corpus[b].source_type = "web"
          /\ Corpus[retr.raised].source_type = "web"
          /\ Before(retr.before, b, retr.raised)
          /\ Before(retr.ranked, retr.raised, b)

\* C30: while a forced rebuild runs, a thread that reads the index finds the
\* previous or the new index in the cache: it never finds the cache empty
\* and goes on to load or build an index of its own.
C30_AtomicRebuild ==
    \A th \in Readers :
       idx.t[th].pc \notin {"load", "build", "save", "raised"}

(***************************************************************************)
(* Chunk cache properties                                                  *)
(***************************************************************************)

\* C31: a forced rebuild (POST /ingest) builds the semantic index from the
\* chunks of all files that are in data/clean_text at that moment, files
\* added after the chunks were first loaded included, and afterwards the
\* semantic index and the lexical index, when there is one, are built over
\* the same chunk set.
C31_RebuildReadsAllFiles ==
    [][IngestData =>
          /\ store'.faiss = Some(store.files)
          /\ store'.bm25 # None => store'.bm25 = store'.faiss]_vars

\* C40: every retrieve call fetches exactly top_n * 4 candidates from the
\* lexical retriever for its own top_n, also when two calls with different
\* top_n overlap on the shared cached retriever.
C40_PerCallCandidateCount ==
    [][\A cl \in Clients :
          InvokeBm25(cl) =>
              store'.c[cl].used_k = store.c[cl].top_n * CANDIDATE_MULTIPLIER]_vars

(***************************************************************************)
(* Failure containment                                                     *)
(***************************************************************************)

\* C32: when the completion or the retrieval raises during an FAQ turn, the
\* turn still returns a text that begins with the fallback text, no exception
\* reaches the caller, and the session ends the turn in the state a
\* successful answer leads to: IDLE for a question asked in IDLE or GREETING,
\* the interrupted state for a question asked in a booking state.
C32_FailureContained ==
    [][\A k \in 1..MaxPending, o \in RagFailures :
          (/\ k \in DOMAIN pending["test-room"]
           /\ pending["test-room"][k].kind \in {"idle_faq", "interrupt"}
           /\ AskRagDone("test-room", k, o))
          => /\ resp'["test-room"].outcome = "returned"
             /\ resp'["test-room"].text[1] \in FallbackTexts
             /\ Val(sessions'["test-room"]).state =
                   IF pending["test-room"][k].kind = "idle_faq"
                   THEN IDLE
                   ELSE pending["test-room"][k].state]_vars

\* a question asked while a service or a date was collected got the apology
\* text and the prompt of the interrupted state, and the session is in that
\* state again
C32_Witness ==
    /\ resp["test-room"].outcome = "returned"
    /\ Len(resp["test-room"].text) = 2
    /\ resp["test-room"].text[1] = <<"rag_error">>
    /\ sessions["test-room"] # None
    /\ Val(sessions["test-room"]).state \in {COLLECT_SERVICE, COLLECT_DATE}
    /\ pending["test-room"] = <<>>

(***************************************************************************)
(* Slot and appointment consistency                                        *)
(***************************************************************************)

\* the confirmed appointments of the committed table for the key of slot row i
ConfirmedFor(i) ==
    {a \in DOMAIN appointments :
        /\ appointments[a].status = "confirmed"
        /\ SameKey(appointments[a], available_slots[i])}

\* C33: after any sequence of seed, book and cancel operations a slot has
\* is_booked = 1 if and only if exactly one confirmed appointment exists for
\* its (date, time, service); cancelling an appointment that is cancelled
\* already does not free a slot another appointment has booked since.
C33_SlotAppointmentConsistency ==
    \A i \in DOMAIN available_slots :
        (available_slots[i].is_booked = 1) <=> (Cardinality(ConfirmedFor(i)) = 1)

(***************************************************************************)
(* Booking data                                                            *)
(***************************************************************************)

\* the turn of room test-room on the text calls book_appointment
CallsBook(text, raises) ==
    /\ Message("test-room", text, raises)
    /\ Turn(get_session("test-room"), text, today, available_slots).kind = "book"

slot_yes_words == {"yes", "ja", "ok", "that", "that one", "fine", "good"}

\* the step is a turn of room test-room that the COLLECT_SLOT branch handles
SlotTurn(text) ==
    /\ TurnIn("test-room", text)
    /\ get_session("test-room").state = COLLECT_SLOT
    /\ detect_intent(text) \notin {"cancel", "go_back"}

\* C35: whenever COLLECT_SLOT advances to COLLECT_NAME the stored time is the
\* time of an entry of session.available_slots; when exactly one slot is
\* listed an affirmative word selects that slot's time; when nothing matches,
\* state and session.time stay as they were.
C35_OnlyListedSlots ==
    [][\A text \in Utterances :
          SlotTurn(text)
          => LET s0 == get_session("test-room")
                 s  == Val(sessions'["test-room"])
             IN  /\ s.state \in {COLLECT_SLOT, COLLECT_NAME}
                 /\ s.state = COLLECT_NAME =>
                       /\ s.time # None
                       /\ \E k \in DOMAIN s0.available_slots :
                             s0.available_slots[k].time = Val(s.time)
                 /\ (Len(s0.available_slots) = 1 /\ Has(text, slot_yes_words)) =>
                       /\ s.state = COLLECT_NAME
                       /\ s.time = Some(s0.available_slots[1].time)
                 /\ detect_time(text, s0.available_slots) = None =>
                       /\ s.state = COLLECT_SLOT
                       /\ s.time = s0.time]_vars

\* with one slot listed, "yes" has selected it
C35_Witness ==
    /\ sessions["test-room"] # None
    /\ Val(sessions["test-room"]).state = COLLECT_NAME
    /\ Len(Val(sessions["test-room"]).available_slots) = 1
    /\ Val(sessions["test-room"]).time =
          Some(Val(sessions["test-room"]).available_slots[1].time)
    /\ resp["test-room"].request = <<"yes">>

Fallback == retr.pc = "returned" /\ retr.mode \in {"disabled", "predict_fails"}

\* the query holds an hours/availability keyword
WantsHours == QueryHits(retr.query) \cap hours_terms # {}

\* chunk a comes before chunk b in the heuristic ordering of the merge
HeuristicBefore(a, b) ==
    \/ heuristic_score(a) > heuristic_score(b)
    \/ /\ heuristic_score(a) = heuristic_score(b)
       /\ PlaceIn(Combined, a) < PlaceIn(Combined, b)

\* C38: when the relevance model is disabled or its scoring raises, retrieve
\* returns the first top_n candidates of the heuristic ordering: the
\* deduplicated merge order for a query without an hours/availability
\* keyword, and for a query with one the order by heuristic score descending,
\* ties kept in merge order.
C38_FallbackOrdering ==
    Fallback =>
       /\ Len(retr.docs) =
             IF retr.top_n < Len(Combined) THEN retr.top_n ELSE Len(Combined)
       /\ \A i \in DOMAIN retr.docs : IsIn(Combined, retr.docs[i])
       /\ ~WantsHours => retr.docs = Take(Combined, retr.top_n)
       /\ WantsHours =>
             /\ \A i, j \in DOMAIN retr.docs :
                   i < j => HeuristicBefore(retr.docs[i], retr.docs[j])
             /\ \A i \in DOMAIN retr.docs, k \in DOMAIN Combined :
                   ~IsIn(retr.docs, Combined[k])
                      => HeuristicBefore(retr.docs[i], Combined[k])

\* scoring raised for an opening-hours query: the last candidate of the merge
\* has the highest heuristic score and is returned first, and of the two
\* candidates with equal scores the one merged first follows
C38_Witness ==
    /\ Fallback
    /\ retr.mode = "predict_fails"
    /\ WantsHours
    /\ Combined = <<1, 2, 3>>
    /\ heuristic_score(1) = heuristic_score(2)
    /\ retr.docs = <<3, 1>>

\* the two candidate lists of the call, one after the other
Merged == retr.faiss_docs \o retr.bm25_docs

\* the first place of chunk d in Merged
FirstSeen(d) ==
    CHOOSE i \in DOMAIN Merged :
        Merged[i] = d /\ \A j \in DOMAIN Merged : Merged[j] = d => i <= j

\* C39: the candidate list passed to scoring holds no two chunks with
\* identical text, holds every distinct text of the semantic and the lexical
\* list, and keeps first-seen order, all candidates of the semantic list
\* before the candidates only the lexical list has.
C39_DeduplicatedMerge ==
    Scored =>
       /\ Len(retr.ranked) = Len(Combined)
       /\ \A d \in Docs : IsIn(retr.ranked, d) <=> IsIn(Combined, d)
       /\ \A i, j \in DOMAIN Combined : i # j => Combined[i] # Combined[j]
       /\ \A d \in Docs : IsIn(Combined, d) <=> IsIn(Merged, d)
       /\ \A i, j \in DOMAIN Combined :
             i < j => FirstSeen(Combined[i]) < FirstSeen(Combined[j])
       /\ \A i, j \in DOMAIN Combined :
             (IsIn(retr.faiss_docs, Combined[i])
              /\ ~IsIn(retr.faiss_docs, Combined[j])) => i < j

\* the lexical list repeats the second candidate of the semantic list: the
\* merge holds it once, at its place in the semantic list
C39_Witness ==
    /\ Scored
    /\ Len(retr.faiss_docs) = 2
    /\ retr.bm25_docs = <<retr.faiss_docs[2]>>
    /\ Combined = retr.faiss_docs
    /\ Len(retr.ranked) = 2

----------------------------------------------------------------------------
(* Specifications *)

\* init_db has created the two empty tables
EmptyStore ==
    /\ today = 0
    /\ available_slots = <<>>
    /\ appointments = <<>>
    /\ wlock = NoConn
    /\ w_slots = <<>>
    /\ w_appts = <<>>
    /\ conn = [c \in Conns |-> IdleConn]
    /\ seedRun = [pc |-> "idle", today |-> 0, failed |-> {}, done |-> {},
                  repeated |-> FALSE]
    /\ faults = 0
    /\ calls = 0

\* the application has started: init_db() and then seed_slots() have run
SeededStore ==
    /\ today = 0
    /\ available_slots = SeedLoop(<<>>, SeedKeys(0), 1, {})
    /\ appointments = <<>>
    /\ wlock = NoConn
    /\ w_slots = <<>>
    /\ w_appts = <<>>
    /\ conn = [c \in Conns |-> IdleConn]
    /\ seedRun = [pc |-> "idle", today |-> 0, failed |-> {}, done |-> {0},
                  repeated |-> FALSE]
    /\ faults = 0
    /\ calls = 0

\* seed_slots runs (application restarts) over the days, interleaved with the
\* bookings of one caller
InitSeed == EmptyStore /\ InitAgentVars /\ InitRagVars

SeedStep ==
    \/ \E failed \in SUBSET (1..(SeedDays * Len(SeedServices) * Len(SeedTimes))) :
          SeedInsert(failed)
    \/ SeedCommit
    \/ NextDay
    \/ (BookSteps("c1") /\ calls' <= MaxSeedCalls)

NextSeed == SeedStep /\ UNCHANGED agentvars /\ UNCHANGED ragvars

SpecSeed == InitSeed /\ [][NextSeed]_vars

\* concurrent callers of book_appointment and cancel_appointment on a
\* seeded store
InitDb == SeededStore /\ InitAgentVars /\ InitRagVars

NextDb ==
    /\ \E c \in Conns : BookSteps(c) \/ CancelSteps(c)
    /\ calls' <= MaxCalls
    /\ UNCHANGED agentvars
    /\ UNCHANGED ragvars

SpecDb == InitDb /\ [][NextDb]_vars

\* the dialogue of one conversation of POST /agent/message on a seeded store
InitAgent == SeededStore /\ InitAgentVars /\ InitRagVars

NextAgent ==
    \/ \E text \in Utterances, raises \in BOOLEAN :
          Message("test-room", text, raises) /\ calls' <= MaxTurns
    \/ \E k \in 1..MaxPending, answer \in Answers :
          RagDone("test-room", k, answer)

SpecAgent == InitAgent /\ [][NextAgent]_vars

\* the same conversation while another caller (the confirm turn of a
\* conversation in another worker process) runs book_appointment on the store
NextShared ==
    \/ \E text \in BookingScript :
          Message("test-room", text, FALSE) /\ calls' <= MaxSharedTurns
    \/ \E k \in 1..MaxPending, answer \in Answers :
          RagDone("test-room", k, answer)
    \/ (/\ BookSteps("c1")
        /\ calls' <= MaxSharedTurns
        /\ UNCHANGED agentvars
        /\ UNCHANGED ragvars)

SpecShared == InitAgent /\ [][NextShared]_vars

\* the dialogue of one LiveKit room: the worker joins, data messages arrive
\* and are handled as tasks of their own, the room disconnects
NextLiveKit ==
    \/ Entrypoint("room-1")
    \/ \E text \in Utterances, raises \in BOOLEAN :
          Message("room-1", text, raises) /\ calls' <= MaxTurns
    \/ \E k \in 1..MaxPending, answer \in Answers :
          RagDone("room-1", k, answer)
    \/ Disconnect("room-1")

SpecLiveKit == InitAgent /\ [][NextLiveKit]_vars

\* transition_to and go_back called directly on a fresh BookingSession:
\* some transition_to calls, then as many go_back calls
TransitionTargets ==
    {COLLECT_SERVICE, FAQ, IDLE, COLLECT_DATE, COLLECT_SLOT, COLLECT_NAME,
     COLLECT_PHONE, CONFIRM_BOOKING, BOOKING_DONE}

InitHistory ==
    /\ SeededStore
    /\ InitRagVars
    /\ pending = [r \in Rooms |-> <<>>]
    /\ resp = [r \in Rooms |-> NoResponse]
    /\ \E s0 \in {IDLE, GREETING} :
          /\ sessions = [r \in Rooms |->
                IF r = "test-room"
                THEN Some([NewSession(r) EXCEPT !.state = s0]) ELSE None]
          /\ probe = [origin |-> s0, fwd |-> 0, back |-> 0, all_true |-> TRUE]

CallTransitionTo(new_state) ==
    /\ probe.back = 0
    /\ probe.fwd < MaxProbe
    /\ sessions' = [sessions EXCEPT !["test-room"] =
                       Some(transition_to(Val(sessions["test-room"]), new_state))]
    /\ probe' = [probe EXCEPT !.fwd = probe.fwd + 1]
    /\ UNCHANGED <<pending, resp>>
    /\ UNCHANGED dbvars
    /\ UNCHANGED ragvars

CallGoBack ==
    /\ probe.back < probe.fwd
    /\ \E g \in {go_back(Val(sessions["test-room"]))} :
          /\ sessions' = [sessions EXCEPT !["test-room"] = Some(g.session)]
          /\ probe' = [probe EXCEPT !.back = probe.back + 1,
                                    !.all_true = probe.all_true /\ g.went]
    /\ UNCHANGED <<pending, resp>>
    /\ UNCHANGED dbvars
    /\ UNCHANGED ragvars

NextHistory ==
    \/ \E new_state \in TransitionTargets : CallTransitionTo(new_state)
    \/ CallGoBack

SpecHistory == InitHistory /\ [][NextHistory]_vars

\* process_message called on a session in any state of the enum, with the
\* booking data filled in or not; probe.origin keeps the state it started in
StartSessions ==
    { [NewSession("test-room") EXCEPT !.state = st, !.language = lang]
         : st \in ConversationState, lang \in {"en", "de"} }
    \cup
    { [NewSession("test-room") EXCEPT
          !.state = st, !.language = lang,
          !.state_history = <<IDLE, COLLECT_SERVICE>>,
          !.service = Some("massage"), !.date = Some(1), !.time = Some(900),
          !.name = Some("Ann"), !.phone = Some("+41791234567"),
          !.available_slots = SeedLoop(<<>>, SeedKeys(0), 1, {})]
         : st \in ConversationState, lang \in {"en", "de"} }

InitSingle ==
    /\ SeededStore
    /\ InitRagVars
    /\ pending = [r \in Rooms |-> <<>>]
    /\ resp = [r \in Rooms |-> NoResponse]
    /\ \E s \in StartSessions :
          /\ sessions = [r \in Rooms |->
                            IF r = "test-room" THEN Some(s) ELSE None]
          /\ probe = [origin |-> s.state, fwd |-> 0, back |-> 0,
                      all_true |-> TRUE]

NextSingle ==
    \/ \E text \in Utterances, raises \in BOOLEAN :
          Message("test-room", text, raises) /\ calls' <= MaxSingle
    \/ \E k \in 1..MaxPending, answer \in Answers :
          RagDone("test-room", k, answer)

SpecSingle == InitSingle /\ [][NextSingle]_vars

\* two conversations side by side: one of POST /agent/message and one
\* LiveKit room, whose worker joins and leaves
NextRooms ==
    \/ Entrypoint("room-1")
    \/ \E r \in Rooms, text \in Utterances :
          Message(r, text, FALSE) /\ calls' <= MaxRoomTurns
    \/ \E r \in Rooms, k \in 1..MaxPending, answer \in Answers :
          RagDone(r, k, answer)
    \/ Disconnect("room-1")

SpecRooms == InitAgent /\ [][NextRooms]_vars

\* one conversation of POST /agent/message in which the caller books, in
\* English or in German, and cancels in German
NextGerman ==
    \/ \E text \in GermanScript :
          Message("test-room", text, FALSE) /\ calls' <= MaxTurns
    \/ \E k \in 1..MaxPending, answer \in Answers :
          RagDone("test-room", k, answer)

SpecGerman == InitAgent /\ [][NextGerman]_vars

\* retrieve called once on any query, top_n and candidate lists, and called
\* again with one chunk scored higher
InitRetrieve ==
    /\ SeededStore
    /\ InitAgentVars
    /\ idx = IndexAtStartup
    /\ store = StoreAtStartup(Files)
    /\ \E query \in Queries, top_n \in 1..MaxTopN, mode \in Modes,
          faiss_docs \in Retrieved(MaxFaiss), bm25_docs \in Retrieved(MaxBm25),
          scores \in [Docs -> Scores \cup {0}] :
          RetrieveCalled(query, top_n, faiss_docs, bm25_docs, scores, mode)

NextRetrieve ==
    \/ RetrieveReturn
    \/ \E d \in Docs, score \in Scores : RetrieveRaised(d, score)

SpecRetrieve == InitRetrieve /\ [][NextRetrieve]_vars

\* the threads of the server's pool in build_or_load_vectorstore
InitIndex == SeededStore /\ InitAgentVars /\ InitRagVars

NextIndex ==
    \E th \in Threads :
       \/ BuildOrLoadCall(th)
       \/ ForceCheck(th)
       \/ DropCache(th)
       \/ CacheCheck(th)
       \/ LoadLocal(th)
       \/ BuildIndex(th)
       \/ SaveLocal(th)
       \/ BuildOrLoadReturn(th)

SpecIndex == InitIndex /\ [][NextIndex]_vars

\* data/clean_text, the chunk cache and POST /ingest: the process starts with
\* some files and either builds its index or loads the one an earlier process
\* left on disk
InitIngest ==
    /\ SeededStore
    /\ InitAgentVars
    /\ retr = NoRetrieve
    /\ idx = IndexAtStartup
    /\ \E fs \in (SUBSET Files) \ {{}} :
          \/ store = StoreAtStartup(fs)
          \/ \E fs0 \in (SUBSET fs) \ {{}} : store = StoreLoadedFromDisk(fs, fs0)

NextIngest ==
    \/ \E f \in Files : AddFile(f)
    \/ IngestData
    \/ RetrieveLoads

SpecIngest == InitIngest /\ [][NextIngest]_vars

\* the clients of the shared BM25 retriever, each call in a thread of the pool
InitBm25 == SeededStore /\ InitAgentVars /\ InitRagVars

NextBm25 ==
    \E cl \in Clients :
       \/ \E top_n \in TopNs(cl) : SetK(cl, top_n)
       \/ InvokeBm25(cl)

SpecBm25 == InitBm25 /\ [][NextBm25]_vars

\* one conversation of POST /agent/message with questions whose pipeline runs
\* end in every way
NextFaq ==
    \/ \E text \in Utterances :
          Message("test-room", text, FALSE) /\ calls' <= MaxFaqTurns
    \/ \E k \in 1..MaxPending, outcome \in RagOutcomes :
          AskRagDone("test-room", k, outcome)

SpecFaq == InitAgent /\ [][NextFaq]_vars

\* one conversation of POST /agent/message whose messages arrive one at a
\* time, each after the response to the one before, on a store in which
\* another caller may have booked the first slot
InitSequential ==
    /\ InitAgentVars
    /\ InitRagVars
    /\ today = 0
    /\ wlock = NoConn
    /\ w_slots = <<>>
    /\ w_appts = <<>>
    /\ conn = [c \in Conns |-> IdleConn]
    /\ seedRun = [pc |-> "idle", today |-> 0, failed |-> {}, done |-> {0},
                  repeated |-> FALSE]
    /\ faults = 0
    /\ calls = 0
    /\ \E seeded \in {SeedLoop(<<>>, SeedKeys(0), 1, {})} :
          \/ /\ available_slots = seeded
             /\ appointments = <<>>
          \/ \E name \in Names, phone \in Phones :
                /\ available_slots =
                      UpdateIsBooked(seeded, seeded[1].date, seeded[1].time,
                                     seeded[1].service, 1)
                /\ appointments =
                      InsertAppointment(<<>>, name, phone, seeded[1].service,
                                        seeded[1].date, seeded[1].time, "c1")

NextSequential ==
    \/ \E text \in Utterances, raises \in BOOLEAN :
          /\ pending["test-room"] = <<>>
          /\ Message("test-room", text, raises)
          /\ calls' <= MaxTurns
    \/ \E k \in 1..MaxPending, answer \in Answers :
          RagDone("test-room", k, answer)

SpecSequential == InitSequential /\ [][NextSequential]_vars

====
